---- MODULE Spec2Model ----
(***************************************************************************)
(* Model of the rector-vsc extension: the diff reconstructor               *)
(* (DiffViewManager.applyDiff), the confirmation session                   *)
(* (DiffViewManager.showDiff and its handlers) and the process invoker     *)
(* (RectorRunner.processFile, processPaths, clearCache).                   *)
(*                                                                         *)
(* A JavaScript string is a tuple of one-character strings; "\n" is the    *)
(* newline character.  A line is such a tuple without "\n".                *)
(***************************************************************************)
EXTENDS Integers, Sequences, FiniteSets, TLC

\* ------------------------------------------------------------------------
\* Strings
\* ------------------------------------------------------------------------

NL == "\n"

\* The value `undefined` (an out-of-range array read), kept apart from every line.
Undefined == <<"undefined">>

\* The value null, applyDiff's failure marker.
Null == <<"null">>

\* A diff that is not a string at run time (result.diff comes from JSON.parse).
NotAString == <<"not-a-string">>

Digits == <<"0", "1", "2", "3", "4", "5", "6", "7", "8", "9">>

IsDigit(c) == \E k \in 1..10 : Digits[k] = c

DigitVal(c) == (CHOOSE k \in 1..10 : Digits[k] = c) - 1

Whitespace == {" ", "\t"}

\* String.prototype.split('\n'): the pieces between newlines; never empty.
RECURSIVE Split(_)
Split(s) ==
  IF \A k \in 1..Len(s) : s[k] # NL THEN <<s>>
  ELSE LET p == CHOOSE k \in 1..Len(s) :
                  s[k] = NL /\ \A j \in 1..(k - 1) : s[j] # NL
       IN <<SubSeq(s, 1, p - 1)>> \o Split(SubSeq(s, p + 1, Len(s)))

\* Array.prototype.join('\n'): undefined elements are rendered as "".
RECURSIVE Join(_)
Join(ls) ==
  IF ls = <<>> THEN <<>>
  ELSE LET h == IF Head(ls) = Undefined THEN <<>> ELSE Head(ls)
       IN IF Len(ls) = 1 THEN h ELSE h \o <<NL>> \o Join(Tail(ls))

\* String.prototype.startsWith
StartsWith(line, pfx) ==
  Len(line) >= Len(pfx) /\ SubSeq(line, 1, Len(pfx)) = pfx

\* line.trim() === ''
TrimIsEmpty(line) == \A k \in 1..Len(line) : line[k] \in Whitespace

\* line.substring(1)
Substring1(line) == SubSeq(line, 2, Len(line))

\* Position after the longest run of digits that starts at position i.
RECURSIVE DigitsEnd(_, _)
DigitsEnd(line, i) ==
  IF i <= Len(line) /\ IsDigit(line[i]) THEN DigitsEnd(line, i + 1) ELSE i

\* parseInt(digits, 10) of the digits in positions i .. j-1.
RECURSIVE ParseInt(_, _, _)
ParseInt(line, i, j) ==
  IF j <= i THEN 0
  ELSE 10 * ParseInt(line, i, j - 1) + DigitVal(line[j - 1])

LitAt(line, i, lit) ==
  i + Len(lit) - 1 <= Len(line) /\ SubSeq(line, i, i + Len(lit) - 1) = lit

SkipComma(line, i) == IF i <= Len(line) /\ line[i] = "," THEN i + 1 ELSE i

\* /@@ -(\d+),?(\d*) \+(\d+),?(\d*) @@/ tried at position i.
HunkMatchAt(line, i) ==
  LET a == i + 4
      b == DigitsEnd(line, a)
      d == DigitsEnd(line, SkipComma(line, b))
      e == d + 2
      f == DigitsEnd(line, e)
      h == DigitsEnd(line, SkipComma(line, f))
  IN /\ LitAt(line, i, <<"@", "@", " ", "-">>)
     /\ b > a
     /\ LitAt(line, d, <<" ", "+">>)
     /\ f > e
     /\ LitAt(line, h, <<" ", "@", "@">>)

\* line.match(...): the regular expression is not anchored.
HunkMatches(line) == \E i \in 1..Len(line) : HunkMatchAt(line, i)

\* parseInt(match[1], 10) of the leftmost match.
OldStart(line) ==
  LET i == CHOOSE k \in 1..Len(line) :
             HunkMatchAt(line, k) /\ \A j \in 1..(k - 1) : ~HunkMatchAt(line, j)
  IN ParseInt(line, i + 4, DigitsEnd(line, i + 4))

\* ------------------------------------------------------------------------
\* DiffViewManager.applyDiff
\* ------------------------------------------------------------------------

\* originalLines[originalIndex] with a 0-based index.
OrigAt(originalLines, originalIndex) ==
  IF originalIndex >= 0 /\ originalIndex < Len(originalLines)
  THEN originalLines[originalIndex + 1]
  ELSE Undefined

\* while (originalIndex < limit) { result.push(originalLines[originalIndex]); originalIndex++; }
RECURSIVE CopyWhile(_, _, _)
CopyWhile(st, originalLines, limit) ==
  IF st.originalIndex < limit
  THEN CopyWhile([st EXCEPT !.result = Append(@, OrigAt(originalLines, st.originalIndex)),
                            !.originalIndex = @ + 1],
                 originalLines, limit)
  ELSE st

\* A removed line: the cursor moves on, nothing is emitted.
MinusLine(st, line, originalLines) == [st EXCEPT !.originalIndex = @ + 1]

\* An added line: its text is emitted, the cursor stays.
PlusLine(st, line, originalLines) == [st EXCEPT !.result = Append(@, Substring1(line))]

\* A context line: the original line at the cursor is emitted.
ContextLine(st, line, originalLines) ==
  [st EXCEPT !.result = Append(@, OrigAt(originalLines, st.originalIndex)),
             !.originalIndex = @ + 1]

\* A blank diff line: context only if the original line at the cursor is blank.
BlankLine(st, line, originalLines) ==
  IF /\ st.originalIndex < Len(originalLines)
     /\ TrimIsEmpty(OrigAt(originalLines, st.originalIndex))
  THEN [st EXCEPT !.result = Append(@, <<>>), !.originalIndex = @ + 1]
  ELSE st

\* The file-header test of the loop.
IsFileHeader(line) ==
  \/ StartsWith(line, <<"-", "-", "-">>)
  \/ StartsWith(line, <<"+", "+", "+">>)

\* One iteration of the for loop over the diff's lines.
ApplyLine(st, line, originalLines) ==
  IF IsFileHeader(line) THEN st
  ELSE IF StartsWith(line, <<"@", "@">>)
  THEN IF HunkMatches(line)
       THEN [CopyWhile(st, originalLines, OldStart(line) - 1) EXCEPT !.inHeader = FALSE]
       ELSE st
  ELSE IF st.inHeader THEN st
  ELSE IF StartsWith(line, <<"-">>) THEN MinusLine(st, line, originalLines)
  ELSE IF StartsWith(line, <<"+">>) THEN PlusLine(st, line, originalLines)
  ELSE IF StartsWith(line, <<" ">>) THEN ContextLine(st, line, originalLines)
  ELSE IF TrimIsEmpty(line) THEN BlankLine(st, line, originalLines)
  ELSE st

RECURSIVE ApplyLines(_, _, _, _)
ApplyLines(st, lines, i, originalLines) ==
  IF i > Len(lines) THEN st
  ELSE ApplyLines(ApplyLine(st, lines[i], originalLines), lines, i + 1, originalLines)

\* Variant: the loop starts as if a hunk header had been seen (inHeader false).
ApplyDiffResultFromBody(originalContent, diff) ==
  LET lines == Split(diff)
      originalLines == Split(originalContent)
      st0 == [originalIndex |-> 0, inHeader |-> FALSE, result |-> <<>>]
      st1 == ApplyLines(st0, lines, 1, originalLines)
  IN CopyWhile(st1, originalLines, Len(originalLines)).result

\* The result array before the join.
ApplyDiffResult(originalContent, diff) ==
  LET lines == Split(diff)
      originalLines == Split(originalContent)
      st0 == [originalIndex |-> 0, inHeader |-> TRUE, result |-> <<>>]
      st1 == ApplyLines(st0, lines, 1, originalLines)
  IN CopyWhile(st1, originalLines, Len(originalLines)).result

\* applyDiff(originalContent, diff): diff.split throws on a non-string, which
\* the catch turns into null.
applyDiff(originalContent, diff) ==
  IF diff = NotAString THEN Null
  ELSE Join(ApplyDiffResult(originalContent, diff))

\* ------------------------------------------------------------------------
\* The external tool's unified diff of two contents (spec 4.3): the file
\* headers, then one hunk over the whole file: the common leading lines as
\* context, the removed lines, the added lines, the common trailing lines as
\* context; every line ends with a newline.
\* ------------------------------------------------------------------------

Min(a, b) == IF a < b THEN a ELSE b

\* Decimal digits of n.
RECURSIVE ToDigits(_)
ToDigits(n) == IF n < 10 THEN <<Digits[n + 1]>> ELSE ToDigits(n \div 10) \o <<Digits[(n % 10) + 1]>>

CommonPrefix(a, b) ==
  CHOOSE k \in 0..Min(Len(a), Len(b)) :
    /\ \A i \in 1..k : a[i] = b[i]
    /\ k < Min(Len(a), Len(b)) => a[k + 1] # b[k + 1]

CommonSuffix(a, b, p) ==
  CHOOSE k \in 0..(Min(Len(a), Len(b)) - p) :
    /\ \A i \in 1..k : a[Len(a) - i + 1] = b[Len(b) - i + 1]
    /\ k < Min(Len(a), Len(b)) - p => a[Len(a) - k] # b[Len(b) - k]

Prefixed(c, ls) == [i \in 1..Len(ls) |-> <<c>> \o ls[i]]

HunkHeader(oldCount, newCount) ==
  <<"@", "@", " ", "-", "1", ",">> \o ToDigits(oldCount)
    \o <<" ", "+", "1", ",">> \o ToDigits(newCount) \o <<" ", "@", "@">>

unifiedDiff(original, modified) ==
  LET a == Split(original)
      b == Split(modified)
      p == CommonPrefix(a, b)
      q == CommonSuffix(a, b, p)
  IN IF a = b THEN <<>>
     ELSE Join(<< <<"-", "-", "-", " ", "a">>, <<"+", "+", "+", " ", "b">>,
                  HunkHeader(Len(a), Len(b)) >>
               \o Prefixed(" ", SubSeq(a, 1, p))
               \o Prefixed("-", SubSeq(a, p + 1, Len(a) - q))
               \o Prefixed("+", SubSeq(b, p + 1, Len(b) - q))
               \o Prefixed(" ", SubSeq(a, Len(a) - q + 1, Len(a))))
          \o <<NL>>

\* Longest content of the round trip, in lines.
MaxLines == 2

\* The lines contents are made of: blank, whitespace-only, plain, and lines
\* whose text starts with a space, '-', '+', '--' or '++'.
LineAlphabet ==
  { <<>>, <<" ">>, <<"a">>, <<" ", "a">>, <<"-", "a">>, <<"+", "a">>,
    <<"-", "-", "a">>, <<"+", "+", "a">> }

RECURSIVE LineSeqs(_)
LineSeqs(n) ==
  IF n = 0 THEN {<<>>}
  ELSE LET shorter == LineSeqs(n - 1)
       IN shorter \cup {Append(ls, l) : ls \in {x \in shorter : Len(x) = n - 1},
                                         l \in LineAlphabet}

Contents == {Join(ls) : ls \in LineSeqs(MaxLines) \ {<<>>}}

\* ------------------------------------------------------------------------
\* Confirmation session: bounds and inputs
\* ------------------------------------------------------------------------

\* Number of calls (showDiff or dispose) made on the manager.
MaxSessions == 2

\* Number of settle timers armed over a run.
MaxTimers == 2

Sessions == 1..MaxSessions

\* Original documents, as <<directory, base name>>.
OriginalPathSeq == << <<"dir1", "a.php">>, <<"dir2", "b.php">> >>

OriginalPaths == {OriginalPathSeq[k] : k \in 1..Len(OriginalPathSeq)}

\* path.basename(originalUri.fsPath)
BaseName(p) == p[2]

\* The part of a file name that marks a scratch file.
TmpSuffix == ".rector.tmp.php"

\* `${baseName}.rector.tmp.php` inside the one temp directory.
TmpFilePath(p) == <<"tmp", BaseName(p), TmpSuffix>>

\* file.includes('.rector.tmp.php')
includes(file, part) == \E k \in 1..Len(file) : file[k] = part

\* A file in the temp directory that is not a scratch file.
OtherFile == <<"tmp", "notes.txt">>

TmpPaths == {TmpFilePath(p) : p \in OriginalPaths}

\* The order in which readdir lists the temp directory.
TmpPathSeq == [k \in 1..Len(OriginalPathSeq) |-> TmpFilePath(OriginalPathSeq[k])]

\* The files the temp directory can hold, in the order readdir lists them.
DirSeq == TmpPathSeq \o <<OtherFile>>

DirFiles == {DirSeq[k] : k \in 1..Len(DirSeq)}

Uris == OriginalPaths \cup TmpPaths

\* What readFile returns for an original document.
FileContent == <<"a">>

\* The diffs handed to showDiff: one rewriting the line, one deleting the
\* only line (the result is the empty string), one that is not a string.
SessionDiffs ==
  << <<"@", "@", " ", "-", "1", " ", "+", "1", " ", "@", "@", NL, "-", "a", NL, "+", "b">>,
     <<"@", "@", " ", "-", "1", " ", "+", "0", ",", "0", " ", "@", "@", NL, "-", "a">>,
     NotAString >>

NoSession == 0

\* The writer of a file left behind by an earlier run of the extension.
EarlierRun == MaxSessions + 1
NoPath == <<>>
NoTimer == 0

VARIABLES
  mgr,          \* the DiffViewManager's fields
  sess,         \* the showDiff and dispose calls: where each is suspended, and its locals
  calls,        \* number of calls made so far
  fs,           \* the temp directory: path -> the call that wrote the file, or NoSession
  items,        \* status-bar items that exist: <<kind, creating call>>
  timers,       \* armed timers: [id, owner]
  timerSeq,     \* number of timers armed so far
  visibleDocs   \* tracked documents shown by visible editors

vars == <<mgr, sess, calls, fs, items, timers, timerSeq, visibleDocs>>

\* The diff reconstructor on its own: the inputs and the result of one run.
VARIABLES
  dpc,          \* "input", "diffed", "applied"
  dOriginal,    \* the original content
  dModified,    \* the content the diff was taken against
  dDiff,        \* the diff text
  dOut          \* what applyDiff returned

dvars == <<dpc, dOriginal, dModified, dDiff, dOut>>

\* The RectorRunner and its environment: one invocation from call to completion.
VARIABLES
  rectorConfig,      \* the 'rector' settings that getConfig reads
  workspaceFolders,  \* vscode.workspace.workspaceFolders, as their paths
  disk,              \* the files that exist
  rpc,               \* "idle", "running" (suspended at await execFile), "done"
  request,           \* the call: operation, target paths, dryRun
  spawned,           \* the execFile calls made: executable, args, cwd
  timeoutId,         \* the abort timer: "none", "armed", "cleared", "fired"
  aborts,            \* number of controller.abort() calls
  exit,              \* how the execFile promise settled
  result,            \* what the call returned or threw
  rlog               \* the lines written to the output channel, without their variable parts

rvars ==
  <<rectorConfig, workspaceFolders, disk, rpc, request, spawned, timeoutId, aborts,
    exit, result, rlog>>

\* The defaults of getConfig: 'rector', '', false, 60000.
DefaultTimeout == 60000

DefaultConfig ==
  [executablePath |-> <<"rector">>, configPath |-> <<>>, clearCache |-> FALSE,
   timeout |-> DefaultTimeout]

NoRequest == [op |-> "none", paths |-> <<>>, dryRun |-> FALSE]

\* The execFile promise has not settled.
NoExit ==
  [name |-> "none", code |-> "none", stdout |-> <<>>, message |-> <<>>, stderr |-> <<>>]

\* The call has not completed.  A RectorResult has success, changedFiles and
\* the optional diff, error and appliedRectors; kind tells a returned result
\* from a thrown error.  The diff and the rule list of the i-th per-file
\* record of the payload are written i.
NoResult ==
  [kind |-> "none", success |-> FALSE, changedFiles |-> 0, error |-> <<>>,
   hasDiff |-> FALSE, diff |-> 0, hasAppliedRectors |-> FALSE, appliedRectors |-> 0]

\* No invocation is made.
InitRunnerIdle ==
  /\ rectorConfig = DefaultConfig
  /\ workspaceFolders = <<>>
  /\ disk = {}
  /\ rpc = "idle"
  /\ request = NoRequest
  /\ spawned = <<>>
  /\ timeoutId = "none"
  /\ aborts = 0
  /\ exit = NoExit
  /\ result = NoResult
  /\ rlog = <<>>

\* The state as one value, so that the sequential code of a handler composes.
World ==
  [mgr |-> mgr, sess |-> sess, fs |-> fs, items |-> items, timers |-> timers,
   timerSeq |-> timerSeq, visibleDocs |-> visibleDocs]

Commit(w) ==
  /\ mgr' = w.mgr
  /\ sess' = w.sess
  /\ fs' = w.fs
  /\ items' = w.items
  /\ timers' = w.timers
  /\ timerSeq' = w.timerSeq
  /\ visibleDocs' = w.visibleDocs
  /\ UNCHANGED <<dvars, rvars>>

InitMgr ==
  [applyStatusBarItem |-> NoSession, discardStatusBarItem |-> NoSession,
   pendingChoice |-> NoSession, pendingApplyCallback |-> NoSession,
   currentTmpUri |-> NoPath, currentOriginalUri |-> NoPath,
   currentTmpFilePath |-> NoPath,
   closeDocumentListener |-> NoSession, changeActiveEditorListener |-> NoSession,
   isApplying |-> FALSE, cleanupTimeout |-> NoTimer, autoDiscarded |-> FALSE]

InitSess ==
  [kind |-> "none", pc |-> "idle", originalUri |-> NoPath, diff |-> 0, path |-> NoPath,
   files |-> <<>>, cont |-> "none", prev |-> NoSession, modified |-> "none",
   choice |-> "none", claimedBy |-> "none",
   resolveCalls |-> 0, applyCalls |-> 0, reinvoked |-> "none",
   outcome |-> "none", notes |-> {}]


\* ------------------------------------------------------------------------
\* DiffViewManager: the sequential pieces of its methods, as functions of
\* the state.  A call runs until it suspends at an operation that completes
\* in a later turn of the event loop; an await of a promise that is already
\* settled continues in the same turn, before any other event is handled.
\* ------------------------------------------------------------------------

\* vscode.window.show...Message, attributed to the call it is shown for.
Notify(w, s, msg) == [w EXCEPT !.sess[s].notes = @ \cup {msg}]

\* hideStatusBarChoice
hideStatusBarChoice(w) ==
  [w EXCEPT !.items = {it \in @ : /\ it # <<"apply", w.mgr.applyStatusBarItem>>
                                  /\ it # <<"discard", w.mgr.discardStatusBarItem>>},
            !.mgr.applyStatusBarItem = NoSession,
            !.mgr.discardStatusBarItem = NoSession,
            !.mgr.pendingChoice = NoSession]

\* cleanupDiffState, up to the test of currentTmpFilePath.
CleanupHead(w) ==
  [w EXCEPT !.timers = {t \in @ : t.id # w.mgr.cleanupTimeout},
            !.mgr.cleanupTimeout = NoTimer,
            !.mgr.pendingApplyCallback = NoSession,
            !.mgr.isApplying = FALSE,
            !.mgr.autoDiscarded = FALSE]

\* cleanupDiffState, after the block that deletes the file.
CleanupTail(w) ==
  LET h == hideStatusBarChoice([w EXCEPT !.mgr.currentTmpUri = NoPath,
                                         !.mgr.currentOriginalUri = NoPath])
  IN [h EXCEPT !.mgr.closeDocumentListener = NoSession,
               !.mgr.changeActiveEditorListener = NoSession]

\* Call s is over.
Finish(w, s, outcome) ==
  [w EXCEPT !.sess[s].pc = "done", !.sess[s].outcome = outcome,
            !.sess[s].path = NoPath, !.sess[s].cont = "none"]

\* Call s suspends at fs.promises.unlink(path).
AwaitUnlink(w, s, path, cont) ==
  [w EXCEPT !.sess[s].pc = "unlink", !.sess[s].path = path, !.sess[s].cont = cont]

\* The finally block of showDiff.
Finally(w, s, outcome) ==
  IF w.mgr.currentTmpFilePath # NoPath
  THEN AwaitUnlink(w, s, w.mgr.currentTmpFilePath,
                   IF outcome = "returned" THEN "finallyReturn" ELSE "finallyThrow")
  ELSE Finish(w, s, outcome)

\* What follows an awaited cleanupDiffState: in showDiff (lines 26-28, 70-87),
\* or in dispose, where cleanupTempDir lists the temp directory.
AfterCleanup(w, s, cont) ==
  IF cont = "start"
  THEN [w EXCEPT !.mgr.autoDiscarded = FALSE, !.sess[s].pc = "readFile",
                 !.sess[s].path = NoPath, !.sess[s].cont = "none"]
  ELSE IF cont = "dispose"
  THEN [w EXCEPT !.sess[s].pc = "readdir", !.sess[s].path = NoPath,
                 !.sess[s].cont = "none"]
  ELSE IF cont = "return" THEN Finally(w, s, "returned")
  ELSE Finally(w, s, "rejected")

\* cleanupTempDir: the loop over the listed files; a file whose name does not
\* include the suffix is skipped, the unlink of each other file is awaited.
Sweep(w, s, files) ==
  LET rest == SelectSeq(files, LAMBDA f : includes(f, TmpSuffix))
  IN IF rest = <<>> THEN Finish([w EXCEPT !.sess[s].files = <<>>], s, "returned")
     ELSE AwaitUnlink([w EXCEPT !.sess[s].files = Tail(rest)], s, Head(rest), "sweep")

\* await this.cleanupDiffState() in call s, followed by cont.
cleanupDiffState(w, s, cont) ==
  LET h == CleanupHead(w)
      p == h.mgr.currentTmpFilePath
  IN IF p = NoPath THEN AfterCleanup(CleanupTail(h), s, cont)
     ELSE IF h.fs[p] # NoSession THEN AwaitUnlink(h, s, p, cont)
     ELSE AfterCleanup(CleanupTail([h EXCEPT !.mgr.currentTmpFilePath = NoPath]), s, cont)

\* fs.promises.unlink(path) has completed; errors are ignored by every caller.
\* A file operation takes effect in the turn in which its promise settles.
Unlinked(w, path) == [w EXCEPT !.fs[path] = NoSession]

\* setupListeners
setupListeners(w, s) ==
  [w EXCEPT !.mgr.closeDocumentListener = s,
            !.mgr.changeActiveEditorListener = s]

\* showStatusBarChoice: the promise's executor.
showStatusBarChoice(w, s) ==
  [w EXCEPT !.mgr.pendingChoice = s,
            !.mgr.applyStatusBarItem = s,
            !.mgr.discardStatusBarItem = s,
            !.items = @ \cup {<<"apply", s>>, <<"discard", s>>},
            !.sess[s].pc = "choice"]

\* applyCallback() is called.
StartApply(w, s) ==
  [w EXCEPT !.mgr.isApplying = TRUE,
            !.sess[s].applyCalls = @ + 1,
            !.sess[s].pc = "applying"]

\* Mutant of OnApply: the single-flight test inverted.
OnApplyInverted(w, s) ==
  IF w.mgr.isApplying THEN StartApply(w, s)
  ELSE cleanupDiffState(w, s, "return")

\* showDiff after `await this.showStatusBarChoice()` yields 'Apply'.
OnApply(w, s) ==
  IF ~w.mgr.isApplying THEN StartApply(w, s)
  ELSE cleanupDiffState(w, s, "return")

\* showDiff after `await this.showStatusBarChoice()` yields 'Discard'.
OnDiscard(w, s) ==
  cleanupDiffState(
    IF ~w.mgr.autoDiscarded THEN Notify(w, s, "Rector changes discarded") ELSE w,
    s, "return")

\* this.pendingChoice(value): the promise of call s settles once; showDiff
\* continues in the same turn.
Resolve(w, s, value, by) ==
  LET r == [w EXCEPT !.sess[s].resolveCalls = @ + 1]
  IN IF w.sess[s].choice # "none" THEN r
     ELSE LET c == [r EXCEPT !.sess[s].choice = value, !.sess[s].claimedBy = by]
          IN IF value = "Apply" THEN OnApply(c, s) ELSE OnDiscard(c, s)

\* Mutant of handleApplyChoice: a call that finds nothing to resolve clears
\* the single-flight flag.
handleApplyChoiceClearsFlag(w) ==
  IF ~w.mgr.isApplying /\ w.mgr.pendingChoice # NoSession
  THEN Resolve([w EXCEPT !.mgr.pendingChoice = NoSession],
               w.mgr.pendingChoice, "Apply", "handleApplyChoice")
  ELSE [w EXCEPT !.mgr.isApplying = FALSE]

\* handleApplyChoice
handleApplyChoice(w) ==
  IF w.mgr.isApplying THEN w
  ELSE IF w.mgr.pendingChoice # NoSession
  THEN Resolve([w EXCEPT !.mgr.pendingChoice = NoSession],
               w.mgr.pendingChoice, "Apply", "handleApplyChoice")
  ELSE w

\* Mutant of handleDiscardChoice: the resolver is called but not cleared.
handleDiscardChoiceKeepsResolver(w) ==
  IF w.mgr.pendingChoice # NoSession
  THEN Resolve(w, w.mgr.pendingChoice, "Discard", "handleDiscardChoice")
  ELSE w

\* handleDiscardChoice
handleDiscardChoice(w) ==
  IF w.mgr.pendingChoice # NoSession
  THEN Resolve([w EXCEPT !.mgr.pendingChoice = NoSession],
               w.mgr.pendingChoice, "Discard", "handleDiscardChoice")
  ELSE w

\* Mutant of triggerDiscard: the inferred close resolves with 'Apply'.
triggerDiscardResolvesApply(w) ==
  IF w.mgr.pendingChoice # NoSession
  THEN LET s == w.mgr.pendingChoice
           n == Notify([w EXCEPT !.mgr.autoDiscarded = TRUE], s,
                       "Rector changes discarded (diff closed)")
       IN Resolve([n EXCEPT !.mgr.pendingChoice = NoSession], s, "Apply", "triggerDiscard")
  ELSE w

\* triggerDiscard
triggerDiscard(w) ==
  IF w.mgr.pendingChoice # NoSession
  THEN LET s == w.mgr.pendingChoice
           n == Notify([w EXCEPT !.mgr.autoDiscarded = TRUE], s,
                       "Rector changes discarded (diff closed)")
       IN Resolve([n EXCEPT !.mgr.pendingChoice = NoSession], s, "Discard", "triggerDiscard")
  ELSE w

\* this.cleanupTimeout = setTimeout(() => this.triggerDiscard(), 100)
ArmTimer(w) ==
  [w EXCEPT !.timerSeq = @ + 1,
            !.timers = @ \cup {[id |-> w.timerSeq + 1, owner |-> w.mgr.closeDocumentListener]},
            !.mgr.cleanupTimeout = w.timerSeq + 1]

\* The onDidCloseTextDocument listener, for a closed document with uri u.
closeDocumentListener(w, u) ==
  IF /\ \/ (w.mgr.currentTmpUri # NoPath /\ u = w.mgr.currentTmpUri)
        \/ (w.mgr.currentOriginalUri # NoPath /\ u = w.mgr.currentOriginalUri)
     /\ w.mgr.pendingChoice # NoSession
  THEN ArmTimer(w)
  ELSE w

\* The onDidChangeActiveTextEditor listener.
changeActiveEditorListener(w) ==
  IF w.mgr.currentTmpUri # NoPath /\ w.mgr.currentOriginalUri # NoPath
  THEN LET isDiffOpen == \E e \in w.visibleDocs :
                            e = w.mgr.currentTmpUri \/ e = w.mgr.currentOriginalUri
       IN IF ~isDiffOpen /\ w.mgr.pendingChoice # NoSession THEN ArmTimer(w) ELSE w
  ELSE w


\* ------------------------------------------------------------------------
\* Actions: one per turn of the event loop
\* ------------------------------------------------------------------------

\* `!modifiedContent`
Falsy(v) == v = Null \/ v = <<>>

InitManager ==
  /\ mgr = InitMgr
  /\ sess = [s \in Sessions |-> InitSess]
  /\ calls = 0
  /\ items = {}
  /\ timers = {}
  /\ timerSeq = 0
  /\ visibleDocs = {}

\* The manager after construction, the temp directory empty.
InitSession ==
  /\ InitManager
  /\ fs = [p \in DirFiles |-> NoSession]

Init ==
  /\ InitSession
  /\ InitRunnerIdle
  /\ dpc = "input"
  /\ dOriginal = <<>>
  /\ dModified = <<>>
  /\ dDiff = <<>>
  /\ dOut = <<>>

\* showDiff(originalUri, diff, applyCallback) is called: lines 25-28.
ShowDiff(o, d) ==
  /\ calls < MaxSessions
  /\ calls' = calls + 1
  /\ LET s == calls + 1
         w == [World EXCEPT !.sess[s].kind = "showDiff",
                            !.sess[s].originalUri = o, !.sess[s].diff = d,
                            !.sess[s].prev = mgr.pendingChoice]
     IN Commit(cleanupDiffState(w, s, "start"))

\* dispose() is called.
Dispose ==
  /\ calls < MaxSessions
  /\ calls' = calls + 1
  /\ LET s == calls + 1
     IN Commit(cleanupDiffState([World EXCEPT !.sess[s].kind = "dispose"], s, "dispose"))

\* cleanupTempDir: getTempDir and readdir complete; the loop starts.
ReaddirDone(s) ==
  /\ sess[s].pc = "readdir"
  /\ Commit(Sweep(World, s, SelectSeq(DirSeq, LAMBDA p : fs[p] # NoSession)))
  /\ UNCHANGED calls

\* An awaited unlink completes: the rest of cleanupDiffState and what follows
\* it, the end of showDiff's finally block, or the next file of cleanupTempDir.
UnlinkDone(s) ==
  /\ sess[s].pc = "unlink"
  /\ LET u == Unlinked(World, sess[s].path)
         cont == sess[s].cont
     IN Commit(IF cont = "finallyReturn" THEN Finish(u, s, "returned")
               ELSE IF cont = "finallyThrow" THEN Finish(u, s, "rejected")
               ELSE IF cont = "sweep" THEN Sweep(u, s, sess[s].files)
               ELSE AfterCleanup(
                      CleanupTail([u EXCEPT !.mgr.currentTmpFilePath = NoPath]), s, cont))
  /\ UNCHANGED calls

\* this.applyDiff(originalContent, diff) at line 29, for each of the diffs
\* handed to showDiff.
ModifiedContents ==
  [d \in 1..Len(SessionDiffs) |-> applyDiff(FileContent, SessionDiffs[d])]

\* readFile completes: lines 28-36.
ReadFileDone(s) ==
  /\ sess[s].pc = "readFile"
  /\ LET modifiedContent == ModifiedContents[sess[s].diff]
         m == [World EXCEPT !.sess[s].diff = 0,
                            !.sess[s].modified =
                               IF modifiedContent = Null THEN "null"
                               ELSE IF modifiedContent = <<>> THEN "empty"
                               ELSE "content"]
     IN Commit(IF Falsy(modifiedContent)
               THEN Finish(Notify(m, s, "Could not parse diff"), s, "returned")
               ELSE [m EXCEPT !.sess[s].pc = "writeFile"])
  /\ UNCHANGED calls

\* readFile fails: showDiff rejects at line 28.
ReadFileFail(s) ==
  /\ sess[s].pc = "readFile"
  /\ Commit(Finish([World EXCEPT !.sess[s].diff = 0], s, "rejected"))
  /\ UNCHANGED calls

\* getTempDir and writeFile complete: lines 36-50.
WriteFileDone(s) ==
  /\ sess[s].pc = "writeFile"
  /\ LET tmpFilePath == TmpFilePath(sess[s].originalUri)
     IN Commit([World EXCEPT !.fs[tmpFilePath] = s,
                             !.mgr.currentTmpUri = tmpFilePath,
                             !.mgr.currentOriginalUri = sess[s].originalUri,
                             !.mgr.currentTmpFilePath = tmpFilePath,
                             !.sess[s].pc = "diffcmd"])
  /\ UNCHANGED calls

\* writeFile fails: showDiff rejects at line 41.
WriteFileFail(s) ==
  /\ sess[s].pc = "writeFile"
  /\ Commit(Finish(World, s, "rejected"))
  /\ UNCHANGED calls

\* The vscode.diff command completes: lines 50-58.
DiffCmdDone(s) ==
  /\ sess[s].pc = "diffcmd"
  /\ LET w == [World EXCEPT
                 !.visibleDocs = {sess[s].originalUri,
                                  TmpFilePath(sess[s].originalUri)},
                 !.mgr.pendingApplyCallback = s]
     IN Commit(showStatusBarChoice(setupListeners(w, s), s))
  /\ UNCHANGED calls

\* The vscode.diff command fails: the catch block, lines 77-79.
DiffCmdFail(s) ==
  /\ sess[s].pc = "diffcmd"
  /\ Commit(cleanupDiffState(World, s, "throw"))
  /\ UNCHANGED calls

\* The rector.applyDiffChanges command.
HandleApplyChoice ==
  /\ Commit(handleApplyChoice(World))
  /\ UNCHANGED calls

\* The rector.discardDiffChanges command.
HandleDiscardChoice ==
  /\ Commit(handleDiscardChoice(World))
  /\ UNCHANGED calls

\* A settle timer expires.
TimerFires(t) ==
  /\ t \in timers
  /\ Commit(triggerDiscard([World EXCEPT !.timers = @ \ {t}]))
  /\ UNCHANGED calls

\* The documents the manager tracks; the listeners look at no other.
TrackedDocs == {mgr.currentTmpUri, mgr.currentOriginalUri} \ {NoPath}

\* A document is closed while the close listener is registered.
CloseDocument(u) ==
  /\ mgr.closeDocumentListener # NoSession
  /\ LET w == closeDocumentListener([World EXCEPT !.visibleDocs = @ \ {u}], u)
     IN w.timerSeq <= MaxTimers /\ Commit(w)
  /\ UNCHANGED calls

\* The active editor changes while the listener is registered; v is what the
\* visible editors then show of the tracked documents.
ChangeActiveEditor(v) ==
  /\ mgr.changeActiveEditorListener # NoSession
  /\ v \subseteq TrackedDocs
  /\ LET w == changeActiveEditorListener([World EXCEPT !.visibleDocs = v])
     IN w.timerSeq <= MaxTimers /\ Commit(w)
  /\ UNCHANGED calls

\* The apply callback completes: lines 65-70.  The callback of the preview
\* command (extension.ts 93-97) awaits processFile(path, false), which
\* returns a result with success true or false, drops the result, reopens
\* the document and shows the notification; showDiff shows it again.
ApplyCallbackDone(s) ==
  /\ sess[s].pc = "applying"
  /\ \E success \in BOOLEAN :
       LET r == [World EXCEPT !.sess[s].reinvoked =
                                 IF success THEN "success" ELSE "failure"]
           n == Notify(Notify(r, s, "Rector changes applied"), s, "Rector changes applied")
       IN Commit(cleanupDiffState([n EXCEPT !.mgr.isApplying = FALSE], s, "return"))
  /\ UNCHANGED calls

\* The apply callback fails: the inner finally, then the catch block.
ApplyCallbackFail(s) ==
  /\ sess[s].pc = "applying"
  /\ Commit(cleanupDiffState([World EXCEPT !.mgr.isApplying = FALSE], s, "throw"))
  /\ UNCHANGED calls

Next ==
  \/ \E o \in OriginalPaths, d \in 1..Len(SessionDiffs) : ShowDiff(o, d)
  \/ Dispose
  \/ \E s \in Sessions : ReaddirDone(s)
  \/ \E s \in Sessions : UnlinkDone(s)
  \/ \E s \in Sessions : ReadFileDone(s)
  \/ \E s \in Sessions : ReadFileFail(s)
  \/ \E s \in Sessions : WriteFileDone(s)
  \/ \E s \in Sessions : WriteFileFail(s)
  \/ \E s \in Sessions : DiffCmdDone(s)
  \/ \E s \in Sessions : DiffCmdFail(s)
  \/ HandleApplyChoice
  \/ HandleDiscardChoice
  \/ \E t \in timers : TimerFires(t)
  \/ \E u \in Uris : CloseDocument(u)
  \/ \E v \in SUBSET Uris : ChangeActiveEditor(v)
  \/ \E s \in Sessions : ApplyCallbackDone(s)
  \/ \E s \in Sessions : ApplyCallbackFail(s)

Spec == Init /\ [][Next]_<<vars, dvars, rvars>>

\* The manager constructed over a temp directory that holds a file which is
\* not a scratch file, and scratch files left by an earlier run.
InitLeaked ==
  /\ InitManager
  /\ \E leaked \in SUBSET TmpPaths :
       fs = [p \in DirFiles |->
               IF p = OtherFile \/ p \in leaked THEN EarlierRun ELSE NoSession]
  /\ InitRunnerIdle
  /\ dpc = "input"
  /\ dOriginal = <<>>
  /\ dModified = <<>>
  /\ dDiff = <<>>
  /\ dOut = <<>>

SpecLeaked == InitLeaked /\ [][Next]_<<vars, dvars, rvars>>

\* ------------------------------------------------------------------------
\* The diff reconstructor on inputs drawn from the bounded contents
\* ------------------------------------------------------------------------

InitDiff ==
  /\ InitSession
  /\ InitRunnerIdle
  /\ dpc = "input"
  /\ dOriginal \in Contents
  /\ dModified \in Contents
  /\ dDiff = <<>>
  /\ dOut = <<>>

\* The tool diffs the original against the modified content.
MakeDiff ==
  /\ dpc = "input"
  /\ dpc' = "diffed"
  /\ dDiff' = unifiedDiff(dOriginal, dModified)
  /\ UNCHANGED <<dOriginal, dModified, dOut, vars, rvars>>

\* showDiff line 29: this.applyDiff(originalContent, diff).
Reconstruct ==
  /\ dpc = "diffed"
  /\ dpc' = "applied"
  /\ dOut' = applyDiff(dOriginal, dDiff)
  /\ UNCHANGED <<dOriginal, dModified, dDiff, vars, rvars>>

NextDiff == MakeDiff \/ Reconstruct

SpecDiff == InitDiff /\ [][NextDiff]_<<vars, dvars, rvars>>

\* ------------------------------------------------------------------------
\* The diff reconstructor on given diffs
\* ------------------------------------------------------------------------

\* Longest given diff, in lines.
MaxDiffLines == 2

\* The lines given diffs are made of: blank, the two file headers, a removed,
\* an added and a context line, a line that starts with @@ without being a
\* hunk header, a line of plain text, and a hunk header.
DiffLineAlphabet ==
  { <<>>,
    <<"-", "-", "-", " ", "a">>,
    <<"+", "+", "+", " ", "b">>,
    <<"-", "a">>,
    <<"+", "a">>,
    <<" ", "a">>,
    <<"@", "@", " ", "a">>,
    <<"a">>,
    <<"@", "@", " ", "-", "1", " ", "+", "1", " ", "@", "@">> }

RECURSIVE DiffLineSeqs(_)
DiffLineSeqs(n) ==
  IF n = 0 THEN {<<>>}
  ELSE LET shorter == DiffLineSeqs(n - 1)
       IN shorter \cup {Append(ls, l) : ls \in {x \in shorter : Len(x) = n - 1},
                                         l \in DiffLineAlphabet}

\* The hunk '@@ -1,1 +1,2 @@', '-foo', '+bar', '+baz', each line ended by a newline.
HunkExample ==
  <<"@", "@", " ", "-", "1", ",", "1", " ", "+", "1", ",", "2", " ", "@", "@", NL,
    "-", "f", "o", "o", NL, "+", "b", "a", "r", NL, "+", "b", "a", "z", NL>>

\* The original content "foo\n".
FooContent == <<"f", "o", "o", NL>>

\* One hunk at line 1 with one removed, added or context line, the diff text
\* ending with a newline.
NewlineEndedHunks ==
  {Join(<< <<"@", "@", " ", "-", "1", " ", "+", "1", " ", "@", "@">>, l, <<>> >>) :
     l \in { <<"-", "a">>, <<"+", "a">>, <<" ", "a">> }}

\* A hunk that starts at line 4, beyond every original of the inputs, and a
\* hunk at line 1 with three context lines, more than any original has.
MalformedHunks ==
  { Join(<< <<"@", "@", " ", "-", "4", " ", "+", "4", " ", "@", "@">>, <<"+", "a">> >>),
    Join(<< <<"@", "@", " ", "-", "1", " ", "+", "1", " ", "@", "@">>,
            <<" ", "a">>, <<" ", "a">>, <<" ", "a">> >>) }

GivenDiffs ==
  {Join(ls) : ls \in DiffLineSeqs(MaxDiffLines)} \cup {HunkExample}
    \cup NewlineEndedHunks \cup MalformedHunks

InitApply ==
  /\ InitSession
  /\ InitRunnerIdle
  /\ dpc = "diffed"
  /\ dOriginal \in Contents \cup {FooContent}
  /\ dModified = <<>>
  /\ dDiff \in GivenDiffs
  /\ dOut = <<>>

NextApply == Reconstruct

SpecApply == InitApply /\ [][NextApply]_<<vars, dvars, rvars>>

\* ------------------------------------------------------------------------
\* RectorRunner: paths
\*
\* A path is the tuple of its segments; an absolute path starts with the
\* segment "/"; the empty path is <<>>.
\* ------------------------------------------------------------------------

IsAbsolute(p) == p # <<>> /\ p[1] = "/"

\* One pass over the segments: "." is dropped, ".." removes the segment
\* before it (not the root, and not a leading "..").
RECURSIVE NormalizeFrom(_, _)
NormalizeFrom(acc, rest) ==
  IF rest = <<>> THEN acc
  ELSE LET h == Head(rest)
           t == Tail(rest)
       IN IF h = "." THEN NormalizeFrom(acc, t)
          ELSE IF h = ".."
          THEN IF acc = <<"/">> THEN NormalizeFrom(acc, t)
               ELSE IF acc = <<>> \/ acc[Len(acc)] = ".."
               THEN NormalizeFrom(Append(acc, ".."), t)
               ELSE NormalizeFrom(SubSeq(acc, 1, Len(acc) - 1), t)
          ELSE NormalizeFrom(Append(acc, h), t)

\* path.normalize
normalize(p) ==
  LET r == IF IsAbsolute(p) THEN NormalizeFrom(<<"/">>, Tail(p))
           ELSE NormalizeFrom(<<>>, p)
  IN IF r = <<>> THEN <<".">> ELSE r

\* path.dirname
dirname(p) ==
  IF Len(p) <= 1 THEN (IF IsAbsolute(p) THEN p ELSE <<".">>)
  ELSE SubSeq(p, 1, Len(p) - 1)

\* path.join(dir, name)
pathJoin(dir, name) == normalize(Append(dir, name))

\* path.resolve(root, relative) for an absolute root.
pathResolve(root, relative) == normalize(root \o relative)

\* os.homedir()
HomeDir == <<"/", "home">>

\* process.cwd()
ProcessCwd == <<"/">>

WorkspaceRoot == <<"/", "ws">>

\* The directories that exist.
Dirs ==
  { <<"/">>, <<"/", "ws">>, <<"/", "ws", "src">>, <<"/", "ws", "conf">>, <<"/", "home">> }

\* A target that exists and one that does not.
TargetFile == <<"/", "ws", "src", "a.php">>
MissingTarget == <<"/", "gone", "b.php">>

\* The config files that may exist.
ConfigCandidates ==
  { <<"/", "ws", "rector.php">>, <<"/", "ws", "conf", "rector.php">> }

\* fs.existsSync
existsSync(p) == p \in disk \/ p \in Dirs

\* Variant: a "~" segment is expanded wherever it stands.
resolveSpecialPathAnyTilde(inputPath) ==
  IF inputPath = <<>> THEN inputPath
  ELSE LET at == {k \in 1..Len(inputPath) : inputPath[k] = "~"}
           last == IF at = {} THEN 0 ELSE CHOOSE k \in at : \A j \in at : j <= k
           tilde == IF last = 0 THEN inputPath
                    ELSE HomeDir \o SubSeq(inputPath, last + 1, Len(inputPath))
           relative == tilde[1] \in {".", ".."} /\ Len(tilde) > 1
           rooted == IF relative /\ Len(workspaceFolders) > 0
                     THEN pathResolve(workspaceFolders[1], tilde)
                     ELSE tilde
       IN normalize(rooted)

\* resolveSpecialPath(inputPath): lines 398-422.
resolveSpecialPath(inputPath) ==
  IF inputPath = <<>> THEN inputPath
  ELSE LET tilde == IF inputPath[1] = "~" THEN HomeDir \o Tail(inputPath) ELSE inputPath
           relative == tilde[1] \in {".", ".."} /\ Len(tilde) > 1
           rooted == IF relative /\ Len(workspaceFolders) > 0
                     THEN pathResolve(workspaceFolders[1], tilde)
                     ELSE tilde
       IN normalize(rooted)

\* resolveExecutablePath(executablePath): lines 393-396.
resolveExecutablePath(executablePath) == resolveSpecialPath(executablePath)

ConfigNames == <<"rector.php", "rector.php.dist">>

\* The loop of findConfigFile from directory dir: lines 428-436.
RECURSIVE FindConfigFrom(_)
FindConfigFrom(dir) ==
  IF dir = dirname(dir) THEN Null
  ELSE IF existsSync(pathJoin(dir, ConfigNames[1])) THEN pathJoin(dir, ConfigNames[1])
  ELSE IF existsSync(pathJoin(dir, ConfigNames[2])) THEN pathJoin(dir, ConfigNames[2])
  ELSE FindConfigFrom(dirname(dir))

\* findConfigFile(filePath): lines 424-439.
findConfigFile(filePath) == FindConfigFrom(dirname(filePath))

\* ------------------------------------------------------------------------
\* RectorRunner: the tool's output and parseJsonOutput
\*
\* An output text is a tuple of tokens: the braces, a run of text without
\* braces, the members of the payload object, and the JSON texts null, a
\* number and an array.  A member stands for its whole "key": value text.
\* ------------------------------------------------------------------------

Tok(t, n, e) == [t |-> t, n |-> n, e |-> e]

LBrace == Tok("{", 0, 0)
RBrace == Tok("}", 0, 0)
Text == Tok("text", 0, 0)

\* "totals": {"changed_files": n, "errors": e}
TotalsMember(n, e) == Tok("totals", n, e)

\* "file_diffs": [ k records ]
FileDiffsMember(k) == Tok("file_diffs", k, 0)

\* A JSON value: of the payload object only what the runner reads.
JsValue(type, n, hasTotals, changed, errors, hasFileDiffs, fileDiffs) ==
  [type |-> type, n |-> n, hasTotals |-> hasTotals, changed_files |-> changed,
   errors |-> errors, hasFileDiffs |-> hasFileDiffs, file_diffs |-> fileDiffs]

JsNull == JsValue("null", 0, FALSE, 0, 0, FALSE, 0)

\* JSON.parse threw a SyntaxError.
JsSyntaxError == JsValue("SyntaxError", 0, FALSE, 0, 0, FALSE, 0)

IsObjectText(text) ==
  /\ Len(text) >= 2
  /\ text[1] = LBrace
  /\ text[Len(text)] = RBrace
  /\ \A i \in 2..(Len(text) - 1) : text[i].t \in {"totals", "file_diffs"}
  /\ \A i, j \in 2..(Len(text) - 1) : i # j => text[i].t # text[j].t

ObjectOf(text) ==
  LET members == {text[i] : i \in 2..(Len(text) - 1)}
      hasTotals == \E m \in members : m.t = "totals"
      totals == CHOOSE m \in members : m.t = "totals"
      hasFileDiffs == \E m \in members : m.t = "file_diffs"
      fileDiffs == CHOOSE m \in members : m.t = "file_diffs"
  IN JsValue("object", 0, hasTotals,
             IF hasTotals THEN totals.n ELSE 0,
             IF hasTotals THEN totals.e ELSE 0,
             hasFileDiffs,
             IF hasFileDiffs THEN fileDiffs.n ELSE 0)

\* JSON.parse(text); an array is one "array" token, or "[" and "]" around
\* one or two objects.
JSONparse(text) ==
  IF IsObjectText(text) THEN ObjectOf(text)
  ELSE IF /\ Len(text) >= 4
          /\ text[1].t = "[" /\ text[Len(text)].t = "]"
          /\ \E k \in 3..(Len(text) - 1) :
               /\ IsObjectText(SubSeq(text, 2, k))
               /\ k = Len(text) - 1 \/ IsObjectText(SubSeq(text, k + 1, Len(text) - 1))
  THEN JsValue("array", 0, FALSE, 0, 0, FALSE, 0)
  ELSE IF Len(text) = 1 /\ text[1].t = "null" THEN JsNull
  ELSE IF Len(text) = 1 /\ text[1].t = "number"
  THEN JsValue("number", text[1].n, FALSE, 0, 0, FALSE, 0)
  ELSE IF Len(text) = 1 /\ text[1].t = "array"
  THEN JsValue("array", 0, FALSE, 0, 0, FALSE, 0)
  ELSE JsSyntaxError

\* stdout.match(/\{[\s\S]*\}/): a first "{" with a "}" after it.
HasBraceSpan(stdout) ==
  \E i, j \in 1..Len(stdout) : i < j /\ stdout[i] = LBrace /\ stdout[j] = RBrace

\* jsonMatch[0]: from the first "{" to the last "}".
BraceSpan(stdout) ==
  LET i == CHOOSE k \in 1..Len(stdout) :
             stdout[k] = LBrace /\ \A m \in 1..(k - 1) : stdout[m] # LBrace
      j == CHOOSE k \in 1..Len(stdout) :
             stdout[k] = RBrace /\ \A m \in (k + 1)..Len(stdout) : stdout[m] # RBrace
  IN SubSeq(stdout, i, j)

\* parseJsonOutput(stdout): lines 735-745; a SyntaxError becomes null.
parseJsonOutput(stdout) ==
  LET parsed == IF HasBraceSpan(stdout) THEN JSONparse(BraceSpan(stdout))
                ELSE JSONparse(stdout)
  IN IF parsed = JsSyntaxError THEN JsNull ELSE parsed

\* The truthiness of a JSON value (!output).
Truthy(v) == ~(v.type = "null" \/ (v.type = "number" /\ v.n = 0))

\* ------------------------------------------------------------------------
\* RectorRunner: inputs
\* ------------------------------------------------------------------------

\* Largest changed-file count and number of per-file records of a payload;
\* longest target list of processPaths.
MaxChanged == 2
MaxFileDiffs == 2
MaxTargets == 2

\* The settings: the bare command and a workspace-relative executable; no
\* config path, a workspace-relative one, one under the home directory (which
\* never exists) and an absolute one.
ExecutablePaths == { <<"rector">>, <<".", "vendor", "bin", "rector">> }

ConfigPaths ==
  { <<>>, <<".", "conf", "rector.php">>, <<"~", "rector.php">>, <<"/", "ws", "rector.php">> }

ShortTimeout == 100

TargetPaths == {TargetFile, MissingTarget}

RECURSIVE PathLists(_)
PathLists(n) ==
  IF n = 0 THEN {<<>>}
  ELSE LET shorter == PathLists(n - 1)
       IN shorter \cup {Append(ps, p) : ps \in {x \in shorter : Len(x) = n - 1},
                                         p \in TargetPaths}

\* The payload objects: with or without totals, with or without file_diffs.
PayloadTexts ==
  {<<LBrace>> \o t \o f \o <<RBrace>> :
     t \in {<<>>} \cup {<<TotalsMember(n, 0)>> : n \in 0..MaxChanged},
     f \in {<<>>} \cup {<<FileDiffsMember(k)>> : k \in 0..MaxFileDiffs}}

\* A payload reporting MaxChanged changed files with one per-file record.
ChangedPayload ==
  <<LBrace, TotalsMember(MaxChanged, 0), FileDiffsMember(1), RBrace>>

\* What the process can write: nothing, text, a payload, a payload that
\* reports an error, a payload between text, a payload after text that holds
\* braces, braces around text, and the JSON texts null, 0, a non-zero number,
\* an empty array and an array of two payloads.
Stdouts ==
  PayloadTexts \cup
  { <<>>,
    <<LBrace, TotalsMember(0, 1), RBrace>>,
    <<Text>>,
    <<Text>> \o ChangedPayload \o <<Text>>,
    <<LBrace, Text, RBrace>> \o ChangedPayload,
    <<LBrace, Text, RBrace>>,
    <<Tok("null", 0, 0)>>,
    <<Tok("number", 0, 0)>>,
    <<Tok("number", 1, 0)>>,
    <<Tok("array", 0, 0)>>,
    <<Tok("[", 0, 0)>> \o ChangedPayload \o ChangedPayload \o <<Tok("]", 0, 0)>> }

\* ------------------------------------------------------------------------
\* RectorRunner: processFile, processPaths, clearCache
\* ------------------------------------------------------------------------

\* { success: false, changedFiles: 0, error }
Failure(error) == [NoResult EXCEPT !.kind = "returned", !.error = error]

\* The call threw (its promise rejected) with this message.
Threw(error) == [NoResult EXCEPT !.kind = "threw", !.error = error]

\* A Promise<void> resolved.
Completed == [NoResult EXCEPT !.kind = "completed"]

\* `Config file not found: ${configPath}`
ConfigNotFoundMessage(configPath) == <<"Config file not found: ">> \o configPath

\* `Rector process timed out after ${config.timeout}ms`
TimedOutMessage == <<"Rector process timed out after ">> \o ToDigits(rectorConfig.timeout) \o <<"ms">>

\* `Rector executable not found: ${config.executablePath}`
NotFoundMessage == <<"Rector executable not found: ">> \o rectorConfig.executablePath

\* error.message || error.stderr || 'Unknown error'
ErrorMessage(error) ==
  IF error.message # <<>> THEN error.message
  ELSE IF error.stderr # <<>> THEN error.stderr
  ELSE <<"Unknown error">>

\* Variant: the resolved config path is not looked up on disk.
ConfigForFileUnchecked(filePath) ==
  LET configured == rectorConfig.configPath
      foundConfig == findConfigFile(filePath)
  IN IF Falsy(configured)
     THEN [configPath |-> IF Falsy(foundConfig) THEN configured ELSE foundConfig,
           missing |-> FALSE,
           log |-> IF Falsy(foundConfig) THEN <<>> ELSE <<"Auto-detected config file">>]
     ELSE [configPath |-> resolveSpecialPath(configured), missing |-> FALSE, log |-> <<>>]

\* processFile lines 457-477: the config path, and whether the call returns
\* at line 471.
ConfigForFile(filePath) ==
  LET configured == rectorConfig.configPath
      foundConfig == findConfigFile(filePath)
      resolved == resolveSpecialPath(configured)
  IN IF Falsy(configured)
     THEN [configPath |-> IF Falsy(foundConfig) THEN configured ELSE foundConfig,
           missing |-> FALSE,
           log |-> IF Falsy(foundConfig) THEN <<>> ELSE <<"Auto-detected config file">>]
     ELSE [configPath |-> resolved,
           missing |-> ~existsSync(resolved),
           log |-> IF existsSync(resolved) THEN <<>> ELSE <<"ERROR">>]

\* processPaths lines 607-627.
ConfigForPaths(paths) ==
  LET configured == rectorConfig.configPath
      foundConfig == findConfigFile(paths[1])
      resolved == resolveSpecialPath(configured)
  IN IF Falsy(configured) /\ Len(paths) > 0
     THEN [configPath |-> IF Falsy(foundConfig) THEN configured ELSE foundConfig,
           missing |-> FALSE,
           log |-> IF Falsy(foundConfig) THEN <<>> ELSE <<"Auto-detected config file">>]
     ELSE IF ~Falsy(configured)
     THEN [configPath |-> resolved,
           missing |-> ~existsSync(resolved),
           log |-> IF existsSync(resolved) THEN <<>> ELSE <<"ERROR">>]
     ELSE [configPath |-> configured, missing |-> FALSE, log |-> <<>>]

\* Variant: the fixed flags come before the targets.
FileArgsFlagsFirst(filePath, dryRun, configPath) ==
  << <<"process">>, <<"--output-format=json">>, <<"--no-progress-bar">>, filePath >>
    \o (IF dryRun THEN << <<"--dry-run">> >> ELSE <<>>)
    \o (IF rectorConfig.clearCache THEN << <<"--clear-cache">> >> ELSE <<>>)
    \o (IF Falsy(configPath) THEN <<>> ELSE << <<"--config=">> \o configPath >>)

\* processFile lines 444-455 and 479-481: the argument list.
FileArgs(filePath, dryRun, configPath) ==
  << <<"process">>, filePath >>
    \o (IF dryRun THEN << <<"--dry-run">> >> ELSE <<>>)
    \o << <<"--output-format=json">>, <<"--no-progress-bar">> >>
    \o (IF rectorConfig.clearCache THEN << <<"--clear-cache">> >> ELSE <<>>)
    \o (IF Falsy(configPath) THEN <<>> ELSE << <<"--config=">> \o configPath >>)

\* processPaths lines 597-604 and 629-631.
PathsArgs(paths, configPath) ==
  << <<"process">> >> \o paths
    \o << <<"--output-format=json">>, <<"--no-progress-bar">> >>
    \o (IF rectorConfig.clearCache THEN << <<"--clear-cache">> >> ELSE <<>>)
    \o (IF Falsy(configPath) THEN <<>> ELSE << <<"--config=">> \o configPath >>)

\* The call returns or throws without suspending.
Returns(r, log) ==
  /\ rpc' = "done"
  /\ result' = r
  /\ rlog' = rlog \o log
  /\ UNCHANGED <<spawned, timeoutId, aborts, exit>>

\* execFile(file, args, {cwd, ...}) and the await; timed: the abort timer of
\* lines 487-491 was armed before it.
Spawns(file, args, cwd, timed, log) ==
  /\ rpc' = "running"
  /\ spawned' = Append(spawned, [file |-> file, args |-> args, cwd |-> cwd])
  /\ timeoutId' = IF timed THEN "armed" ELSE timeoutId
  /\ rlog' = rlog \o log
  /\ UNCHANGED <<aborts, exit, result>>

\* processFile(filePath, dryRun) up to the await: lines 441-498.
ProcessFile(filePath, dryRun) ==
  /\ rpc = "idle"
  /\ request' = [op |-> "processFile", paths |-> <<filePath>>, dryRun |-> dryRun]
  /\ LET resolvedExecutable == resolveExecutablePath(rectorConfig.executablePath)
         cfg == ConfigForFile(filePath)
     IN IF cfg.missing
        THEN Returns(Failure(ConfigNotFoundMessage(cfg.configPath)), cfg.log)
        ELSE Spawns(resolvedExecutable, FileArgs(filePath, dryRun, cfg.configPath),
                    dirname(filePath), TRUE,
                    cfg.log \o <<"Executing", "Working directory">>)
  /\ UNCHANGED <<vars, dvars, rectorConfig, workspaceFolders, disk>>

\* processPaths(paths) up to the await: lines 594-661; fs.statSync of a first
\* path that does not exist throws (line 640).
ProcessPaths(paths) ==
  /\ rpc = "idle"
  /\ request' = [op |-> "processPaths", paths |-> paths, dryRun |-> FALSE]
  /\ LET resolvedExecutable == resolveExecutablePath(rectorConfig.executablePath)
         cfg == ConfigForPaths(paths)
         cwd == IF Len(workspaceFolders) > 0 THEN workspaceFolders[1]
                ELSE IF Len(paths) > 0
                THEN (IF paths[1] \in Dirs THEN paths[1] ELSE dirname(paths[1]))
                ELSE ProcessCwd
     IN IF cfg.missing
        THEN Returns(Failure(ConfigNotFoundMessage(cfg.configPath)), cfg.log)
        ELSE IF Len(workspaceFolders) = 0 /\ Len(paths) > 0 /\ ~existsSync(paths[1])
        THEN Returns(Threw(<<"ENOENT: no such file or directory, stat ">> \o paths[1]),
                     cfg.log)
        ELSE Spawns(resolvedExecutable, PathsArgs(paths, cfg.configPath), cwd, TRUE,
                    cfg.log \o <<"Executing", "Working directory", "Processing paths">>)
  /\ UNCHANGED <<vars, dvars, rectorConfig, workspaceFolders, disk>>

\* clearCache() up to the await: lines 747-756.
ClearCache ==
  /\ rpc = "idle"
  /\ request' = [op |-> "clearCache", paths |-> <<>>, dryRun |-> FALSE]
  /\ Spawns(resolveExecutablePath(rectorConfig.executablePath),
            << <<"process">>, <<"--clear-cache">> >>, ProcessCwd, FALSE, <<"Executing">>)
  /\ UNCHANGED <<vars, dvars, rectorConfig, workspaceFolders, disk>>

\* output.totals.changed_files can be read (no TypeError).
ReadsTotals(output) == output.type = "object" /\ output.hasTotals

\* output.file_diffs && output.file_diffs.length > 0
HasFileDiffs(output) == output.hasFileDiffs /\ output.file_diffs > 0

\* processFile building its result from the last record of file_diffs.
FileResultLastRecord(output) ==
  [kind |-> "returned", success |-> TRUE, changedFiles |-> output.changed_files,
   error |-> <<>>,
   hasDiff |-> HasFileDiffs(output),
   diff |-> IF HasFileDiffs(output) THEN output.file_diffs ELSE 0,
   hasAppliedRectors |-> HasFileDiffs(output),
   appliedRectors |-> IF HasFileDiffs(output) THEN output.file_diffs ELSE 0]

\* processFile lines 513-531 and 559-577: the result built from the payload.
FileResult(output) ==
  [kind |-> "returned", success |-> TRUE, changedFiles |-> output.changed_files,
   error |-> <<>>,
   hasDiff |-> HasFileDiffs(output),
   diff |-> IF HasFileDiffs(output) THEN 1 ELSE 0,
   hasAppliedRectors |-> HasFileDiffs(output),
   appliedRectors |-> IF HasFileDiffs(output) THEN 1 ELSE 0]

\* processPaths lines 676-683 and 711-718.
PathsResult(output) ==
  [kind |-> "returned", success |-> TRUE, changedFiles |-> output.changed_files,
   error |-> <<>>, hasDiff |-> FALSE, diff |-> 0,
   hasAppliedRectors |-> FALSE, appliedRectors |-> 0]

ResultOf(op, output) ==
  IF op = "processFile" THEN FileResult(output) ELSE PathsResult(output)

\* The rejection of execFile when the executable cannot be started.
EnoentError ==
  [name |-> "Error", code |-> "ENOENT", stdout |-> <<>>,
   message |-> <<"spawn ENOENT">>, stderr |-> <<>>]

\* The rejection of execFile when the process exits with a non-zero code.
ExitError(stdout, message, stderr) ==
  [name |-> "Error", code |-> "1", stdout |-> stdout, message |-> message,
   stderr |-> stderr]

\* The rejection of execFile when its signal is aborted.
AbortError(stdout) ==
  [name |-> "AbortError", code |-> "ABORT_ERR", stdout |-> stdout,
   message |-> <<"The operation was aborted">>, stderr |-> <<>>]

\* The TypeError of reading changed_files of an undefined totals.
TypeError ==
  [name |-> "TypeError", code |-> "undefined", stdout |-> <<>>,
   message |-> <<"Cannot read properties of undefined (reading 'changed_files')">>,
   stderr |-> <<>>]

\* Variant: the catch block never looks at the attached stdout.
CatchIgnoresStdout(error, op) ==
  IF error.name = "AbortError" THEN Failure(TimedOutMessage)
  ELSE IF error.code = "ENOENT" THEN Failure(NotFoundMessage)
  ELSE Failure(ErrorMessage(error))

\* Variant: the catch block tries the attached stdout before it looks at the
\* kind of the error.
CatchStdoutFirst(error, op) ==
  LET output == parseJsonOutput(error.stdout)
  IN IF error.stdout # <<>> /\ Truthy(output) /\ ReadsTotals(output)
     THEN ResultOf(op, output)
     ELSE IF error.name = "AbortError" THEN Failure(TimedOutMessage)
     ELSE IF error.code = "ENOENT" THEN Failure(NotFoundMessage)
     ELSE Failure(ErrorMessage(error))

\* The catch block of processFile (lines 532-591) and of processPaths
\* (lines 684-732) after clearTimeout.
Catch(error, op) ==
  LET output == parseJsonOutput(error.stdout)
  IN IF error.name = "AbortError" THEN Failure(TimedOutMessage)
     ELSE IF error.code = "ENOENT" THEN Failure(NotFoundMessage)
     ELSE IF error.stdout # <<>> /\ Truthy(output) /\ ReadsTotals(output)
     THEN ResultOf(op, output)
     ELSE Failure(ErrorMessage(error))

\* Variant: a payload is a success only when it reports changed files.
AfterExecNeedsChanges(stdout, op) ==
  LET output == parseJsonOutput(stdout)
  IN IF ~Truthy(output) \/ ~ReadsTotals(output) \/ output.changed_files = 0
     THEN [NoResult EXCEPT !.kind = "returned"]
     ELSE ResultOf(op, output)

\* The try block after the await (lines 502-531, 665-683); a TypeError
\* thrown in it is caught by the same catch block.
AfterExec(stdout, op) ==
  LET output == parseJsonOutput(stdout)
  IN IF ~Truthy(output) THEN Failure(<<"Failed to parse Rector output">>)
     ELSE IF ~ReadsTotals(output) THEN Catch(TypeError, op)
     ELSE ResultOf(op, output)

\* The lines a completed processFile or processPaths call logs.
LogOf(op, r) ==
  IF ~r.success THEN <<"ERROR">>
  ELSE IF op = "processFile" /\ ~r.hasDiff THEN <<"SUCCESS: No changes needed">>
  ELSE IF op = "processFile" THEN <<"SUCCESS: file(s) changed", "Applied rectors">>
  ELSE <<"SUCCESS: file(s) changed">>

\* The call completes in the turn in which the execFile promise settles.
Settles(e, r, log, timer) ==
  /\ rpc' = "done"
  /\ exit' = e
  /\ result' = r
  /\ rlog' = rlog \o log
  /\ timeoutId' = timer
  /\ UNCHANGED <<vars, dvars, rectorConfig, workspaceFolders, disk, request, spawned>>

\* clearTimeout(timeoutId)
clearTimeout(t) == IF t = "armed" THEN "cleared" ELSE t

\* The process exits with code 0: the await returns its stdout.
ExecSucceeds(stdout) ==
  /\ rpc = "running"
  /\ UNCHANGED aborts
  /\ IF request.op = "clearCache"
     THEN Settles([NoExit EXCEPT !.name = "resolved", !.code = "0", !.stdout = stdout],
                  Completed, <<"SUCCESS: Cache cleared">>, timeoutId)
     ELSE LET r == AfterExec(stdout, request.op)
          IN Settles([NoExit EXCEPT !.name = "resolved", !.code = "0", !.stdout = stdout],
                     r, LogOf(request.op, r), clearTimeout(timeoutId))

\* The catch block of clearCache: lines 758-765.
ClearCacheCatch(error) ==
  IF error.code = "ENOENT" THEN Threw(NotFoundMessage) ELSE Completed

\* Variant: every failure of the cache-clear invocation is swallowed.
ExecRejectsSwallowsAll(error) ==
  /\ UNCHANGED aborts
  /\ IF request.op = "clearCache"
     THEN Settles(error, Completed, <<"WARNING: Cache clearing might have failed">>,
                  timeoutId)
     ELSE LET r == Catch(error, request.op)
          IN Settles(error, r, LogOf(request.op, r), clearTimeout(timeoutId))

\* The execFile promise rejects with error, the process having failed by itself.
ExecRejects(error) ==
  /\ UNCHANGED aborts
  /\ IF request.op = "clearCache"
     THEN Settles(error, ClearCacheCatch(error),
                  IF error.code = "ENOENT" THEN <<"ERROR">>
                  ELSE <<"WARNING: Cache clearing might have failed">>,
                  timeoutId)
     ELSE LET r == Catch(error, request.op)
          IN Settles(error, r, LogOf(request.op, r), clearTimeout(timeoutId))

\* The executable cannot be started.
SpawnFails ==
  /\ rpc = "running"
  /\ ExecRejects(EnoentError)

\* The process exits with a non-zero code.
ExitsNonZero(stdout, message, stderr) ==
  /\ rpc = "running"
  /\ ExecRejects(ExitError(stdout, message, stderr))

\* The abort timer fires (lines 488-491): controller.abort() kills the
\* process and rejects the execFile promise with an AbortError that carries
\* the output written so far; the catch block runs in the same turn.
TimeoutFires(stdout) ==
  /\ timeoutId = "armed"
  /\ aborts' = aborts + 1
  /\ IF rpc = "running"
     THEN LET r == Catch(AbortError(stdout), request.op)
          IN Settles(AbortError(stdout), r,
                     <<"WARNING: Process timed out">> \o LogOf(request.op, r), "fired")
     ELSE /\ timeoutId' = "fired"
          /\ rlog' = Append(rlog, "WARNING: Process timed out")
          /\ UNCHANGED <<vars, dvars, rectorConfig, workspaceFolders, disk, request,
                         spawned, rpc, exit, result>>

\* The settings, the workspace and the disk of one invocation; the target
\* file always exists.
InitRunner ==
  /\ InitSession
  /\ dpc = "input"
  /\ dOriginal = <<>>
  /\ dModified = <<>>
  /\ dDiff = <<>>
  /\ dOut = <<>>
  /\ rectorConfig \in [executablePath : ExecutablePaths, configPath : ConfigPaths,
                       clearCache : BOOLEAN, timeout : {ShortTimeout, DefaultTimeout}]
  /\ workspaceFolders \in {<<>>, <<WorkspaceRoot>>}
  /\ disk \in {{TargetFile} \cup c : c \in SUBSET ConfigCandidates}
  /\ rpc = "idle"
  /\ request = NoRequest
  /\ spawned = <<>>
  /\ timeoutId = "none"
  /\ aborts = 0
  /\ exit = NoExit
  /\ result = NoResult
  /\ rlog = <<>>

NextRunner ==
  \/ \E filePath \in TargetPaths, dryRun \in BOOLEAN : ProcessFile(filePath, dryRun)
  \/ \E paths \in PathLists(MaxTargets) : ProcessPaths(paths)
  \/ ClearCache
  \/ \E stdout \in Stdouts : ExecSucceeds(stdout)
  \/ SpawnFails
  \/ \E stdout \in Stdouts, message \in {<<>>, <<"Command failed">>},
          stderr \in {<<>>, <<"PHP Fatal error">>} :
       ExitsNonZero(stdout, message, stderr)
  \/ \E stdout \in Stdouts : TimeoutFires(stdout)

SpecRunner == InitRunner /\ [][NextRunner]_<<vars, dvars, rvars>>

\* Path resolution: the settings that resolveSpecialPath is given, as the
\* executable path or as the config path.  "~", "~/...", a name that only
\* starts with "~", "~" in the middle, "./..." and "../...", a mix of them,
\* a bare command.
ResolveInputs ==
  { <<"~">>,
    <<"~", "rector">>,
    <<"~x", "rector">>,
    <<"/", "opt", "~", "rector">>,
    <<".", "vendor", "bin", "rector">>,
    <<"..", "tools", "rector">>,
    <<"~", ".", "conf", "..", "rector">>,
    <<".", "~", "rector">>,
    <<"rector">> }

InitResolve ==
  /\ InitSession
  /\ dpc = "input"
  /\ dOriginal = <<>>
  /\ dModified = <<>>
  /\ dDiff = <<>>
  /\ dOut = <<>>
  /\ rectorConfig \in
       {[DefaultConfig EXCEPT !.executablePath = p] : p \in ResolveInputs \cup {<<>>}}
         \cup {[DefaultConfig EXCEPT !.configPath = p] : p \in ResolveInputs}
  /\ workspaceFolders \in {<<>>, <<WorkspaceRoot>>}
  /\ disk = {TargetFile, <<"/", "home", "rector">>, <<"/", "ws", "vendor", "bin", "rector">>}
  /\ rpc = "idle"
  /\ request = NoRequest
  /\ spawned = <<>>
  /\ timeoutId = "none"
  /\ aborts = 0
  /\ exit = NoExit
  /\ result = NoResult
  /\ rlog = <<>>

SpecResolve == InitResolve /\ [][NextRunner]_<<vars, dvars, rvars>>

\* Config discovery: no config path is configured, and a rector.php and a
\* rector.php.dist may exist in the directory of the target, in its parent
\* and in the root.
DiscoveryCandidates ==
  {Append(dir, ConfigNames[k]) :
     dir \in { <<"/", "ws", "src">>, <<"/", "ws">>, <<"/">> }, k \in 1..Len(ConfigNames)}

InitDiscovery ==
  /\ InitSession
  /\ dpc = "input"
  /\ dOriginal = <<>>
  /\ dModified = <<>>
  /\ dDiff = <<>>
  /\ dOut = <<>>
  /\ rectorConfig = DefaultConfig
  /\ workspaceFolders = <<WorkspaceRoot>>
  /\ disk \in {{TargetFile} \cup c : c \in SUBSET DiscoveryCandidates}
  /\ rpc = "idle"
  /\ request = NoRequest
  /\ spawned = <<>>
  /\ timeoutId = "none"
  /\ aborts = 0
  /\ exit = NoExit
  /\ result = NoResult
  /\ rlog = <<>>

SpecDiscovery == InitDiscovery /\ [][NextRunner]_<<vars, dvars, rvars>>

\* ------------------------------------------------------------------------
\* Confirmation session: properties
\* ------------------------------------------------------------------------

FilesOf(s) == {p \in TmpPaths : fs[p] = s}

ItemsOf(s) == {it \in items : it[2] = s}

TimersOf(s) == {t \in timers : t.owner = s}

ListensFor(s) ==
  mgr.closeDocumentListener = s \/ mgr.changeActiveEditorListener = s

\* C1: the apply callback of a showDiff call runs only after handleApplyChoice
\* resolved that call's decision with 'Apply'; a call whose decision is
\* Discard (explicit or inferred), whose reconstruction failed, or whose
\* decision was never claimed (superseded, disposed) has not run it.
ApplyOnlyAfterExplicitApply ==
  \A s \in Sessions :
    sess[s].applyCalls > 0 =>
      /\ sess[s].choice = "Apply"
      /\ sess[s].claimedBy = "handleApplyChoice"
      /\ sess[s].modified = "content"

ApplyRanAfterApply ==
  \E s \in Sessions : sess[s].applyCalls = 1 /\ sess[s].choice = "Apply"

\* C2: whatever the number of handleApplyChoice calls, a call's apply callback
\* is invoked at most once, and exactly once when its decision is Apply.
ApplyExactlyOnce ==
  \A s \in Sessions :
    /\ sess[s].applyCalls <= 1
    /\ sess[s].choice = "Apply" => sess[s].applyCalls = 1

ApplyFinished ==
  \E s \in Sessions :
    sess[s].choice = "Apply" /\ sess[s].pc = "done" /\ sess[s].applyCalls = 1

\* C3: when a showDiff call that found a pending session has written its
\* scratch file, nothing of that session is left: no file it wrote, no
\* listener, no armed timer, no status-bar item.
PreviousQuiescedBeforeWrite ==
  \A b \in Sessions :
    (sess[b].pc = "diffcmd" /\ sess[b].prev # NoSession) =>
      LET a == sess[b].prev
      IN /\ FilesOf(a) = {}
         /\ ~ListensFor(a)
         /\ TimersOf(a) = {}
         /\ ItemsOf(a) = {}

\* C4: a call that ended with a Discard decision has no scratch file left;
\* an explicit Discard showed the standard notification, an inferred one
\* showed only the "diff closed" variant.
DiscardDeletesAndNotifies ==
  \A s \in Sessions :
    (sess[s].pc = "done" /\ sess[s].choice = "Discard") =>
      /\ FilesOf(s) = {}
      /\ sess[s].claimedBy = "handleDiscardChoice" =>
           sess[s].notes = {"Rector changes discarded"}
      /\ sess[s].claimedBy = "triggerDiscard" =>
           sess[s].notes = {"Rector changes discarded (diff closed)"}

\* C5: in the step in which showDiff rejects because the apply callback
\* failed, cleanup has run: no scratch file of the call, no status-bar item,
\* no listener, the in-flight flag is false, no success notification.
RejectsOnlyAfterCleanup ==
  [][\A s \in Sessions :
       (sess[s].applyCalls = 1 /\ sess[s].pc # "done"
          /\ sess'[s].pc = "done" /\ sess'[s].outcome = "rejected") =>
         /\ \A p \in TmpPaths : fs'[p] # s
         /\ items' = {}
         /\ mgr'.closeDocumentListener = NoSession
         /\ mgr'.changeActiveEditorListener = NoSession
         /\ ~mgr'.isApplying
         /\ "Rector changes applied" \notin sess'[s].notes]_vars

\* C6: a call's decision is claimed at most once: its resolver is called at
\* most once, a claimed decision never changes, and the pending-choice
\* reference no longer names the call.
DecisionResolvesOnce ==
  [][\A s \in Sessions :
       /\ sess'[s].resolveCalls <= 1
       /\ sess'[s].choice # "none" => mgr'.pendingChoice # s
       /\ sess[s].choice # "none" =>
            /\ sess'[s].choice = sess[s].choice
            /\ sess'[s].claimedBy = sess[s].claimedBy
            /\ sess'[s].resolveCalls = sess[s].resolveCalls]_vars

DecisionClaimed ==
  \E s \in Sessions : sess[s].choice = "Discard" /\ sess[s].resolveCalls = 1

\* C7: at most one session is live: at most one pair of status-bar items,
\* at most one pending decision, at most one scratch file.
AtMostOneLiveSession ==
  /\ Cardinality({it \in items : it[1] = "apply"}) <= 1
  /\ Cardinality({it \in items : it[1] = "discard"}) <= 1
  /\ Cardinality({s \in Sessions : sess[s].pc = "choice"}) <= 1
  /\ Cardinality({p \in TmpPaths : fs[p] # NoSession}) <= 1

\* C8: status-bar items exist only while a session is Presenting.
ItemsOnlyWhilePresenting ==
  items # {} => \E s \in Sessions : sess[s].pc = "choice" /\ mgr.pendingChoice = s

\* C9: the warning is shown exactly when reconstruction yields null; every
\* other result is written to the scratch file.
WarningIffReconstructionFailed ==
  \A s \in Sessions :
    sess[s].modified # "none" =>
      ("Could not parse diff" \in sess[s].notes <=> sess[s].modified = "null")


\* ------------------------------------------------------------------------
\* Diff reconstructor: properties
\* ------------------------------------------------------------------------

\* C10: round trip: reconstructing the original with the diff taken against
\* the modified content yields the modified content.
RoundTrip == dpc = "applied" => dOut = dModified

\* A line of the diff is a hunk header: it starts with @@ and the hunk
\* pattern matches it.
HasHunkHeader(diff) ==
  \E i \in 1..Len(Split(diff)) :
    StartsWith(Split(diff)[i], <<"@", "@">>) /\ HunkMatches(Split(diff)[i])

\* C11: reconstructing with a diff that has no hunk header (the empty diff, a
\* diff of file-header lines only, any other lines) yields the original
\* content unchanged.
NoHunkYieldsOriginal ==
  (dpc = "applied" /\ ~HasHunkHeader(dDiff)) => dOut = dOriginal

\* A diff of added and removed lines without a hunk header was applied.
NoHunkApplied ==
  /\ dpc = "applied"
  /\ dDiff = <<"-", "a", NL, "+", "a">>
  /\ dOriginal = <<"a", NL, "-", "a">>
  /\ dOut = dOriginal

\* C12: the hunk '@@ -1,1 +1,2 @@', '-foo', '+bar', '+baz' applied to
\* "foo\n" yields exactly "bar\nbaz".
HunkExampleYieldsBarBaz ==
  (dpc = "applied" /\ dOriginal = FooContent /\ dDiff = HunkExample) =>
    dOut = <<"b", "a", "r", NL, "b", "a", "z">>


\* ------------------------------------------------------------------------
\* RectorRunner: properties
\* ------------------------------------------------------------------------

\* A processFile or processPaths call has completed.
InvocationDone == rpc = "done" /\ request.op \in {"processFile", "processPaths"}

\* The output holds one payload object with totals, and text without braces
\* around it at most.
CarriesPayload(stdout) ==
  \E i, j \in 1..Len(stdout) :
    /\ i < j
    /\ IsObjectText(SubSeq(stdout, i, j))
    /\ \E k \in (i + 1)..(j - 1) : stdout[k].t = "totals"
    /\ \A k \in 1..Len(stdout) : (k < i \/ k > j) => stdout[k] = Text

\* totals.changed_files of that payload.
ReportedChanged(stdout) ==
  (CHOOSE m \in {stdout[k] : k \in 1..Len(stdout)} : m.t = "totals").n

\* C13: when the process exits with a non-zero code (no abort, executable
\* found) and the error carries a payload whose totals report n changed
\* files, the call returns success=true with changedFiles=n.
TolerantParseSucceeds ==
  (InvocationDone /\ exit.name = "Error" /\ exit.code # "ENOENT"
     /\ CarriesPayload(exit.stdout)) =>
    /\ result.kind = "returned"
    /\ result.success
    /\ result.changedFiles = ReportedChanged(exit.stdout)
    /\ result.error = <<>>

\* A failed process that reported two changed files, as a success.
NonZeroExitReportedChanges ==
  /\ InvocationDone
  /\ exit.name = "Error"
  /\ exit.code = "1"
  /\ exit.stdout = <<Text>> \o ChangedPayload \o <<Text>>
  /\ exit.message = <<"Command failed">>
  /\ result.success
  /\ result.changedFiles = 2

\* An explicit config path is configured and does not exist after resolution.
ConfigMissing ==
  /\ rectorConfig.configPath # <<>>
  /\ resolveSpecialPath(rectorConfig.configPath) \notin disk \cup Dirs

\* C14: with an explicit config path that does not exist after resolution,
\* processFile and processPaths return success=false, changedFiles=0 and an
\* error naming the resolved path; no process is spawned, no timer armed.
ConfigMissingFailsEarly ==
  (request.op \in {"processFile", "processPaths"} /\ ConfigMissing) =>
    /\ rpc = "done"
    /\ result = Failure(<<"Config file not found: ">>
                          \o resolveSpecialPath(rectorConfig.configPath))
    /\ spawned = <<>>
    /\ timeoutId = "none"
    /\ aborts = 0

\* A config path under the home directory was found missing.
HomeConfigMissing ==
  /\ InvocationDone
  /\ rectorConfig.configPath = <<"~", "rector.php">>
  /\ result.error = <<"Config file not found: ", "/", "home", "rector.php">>
  /\ spawned = <<>>

\* C15: processFile and processPaths complete by returning a result; they
\* never throw.
NeverThrows ==
  request.op \in {"processFile", "processPaths"} => result.kind # "threw"

\* C16: a returned result with success=false has changedFiles=0, a non-empty
\* error, no diff and no appliedRectors.
FailureShape ==
  (InvocationDone /\ result.kind = "returned" /\ ~result.success) =>
    /\ result.changedFiles = 0
    /\ result.error # <<>>
    /\ ~result.hasDiff
    /\ ~result.hasAppliedRectors

\* A failure whose error object had neither message nor stderr.
UnknownErrorReturned ==
  /\ InvocationDone
  /\ exit.name = "Error"
  /\ exit.message = <<>>
  /\ exit.stderr = <<>>
  /\ ~result.success
  /\ result.error = <<"Unknown error">>

\* C17: a result with success=true and changedFiles=0 has neither a diff nor
\* appliedRectors.
CleanSuccessHasNoDiff ==
  (InvocationDone /\ result.kind = "returned" /\ result.success
     /\ result.changedFiles = 0) =>
    (~result.hasDiff /\ ~result.hasAppliedRectors)

\* C18: the abort timer is armed for as long as the call waits for the
\* process; when it fires the process is aborted and the call returns the
\* timeout failure whatever the process had written; when the process settles
\* first the timer is cancelled and nothing is aborted.
TimeoutAborts ==
  /\ (rpc = "running" /\ request.op \in {"processFile", "processPaths"}) =>
       timeoutId = "armed"
  /\ (InvocationDone /\ exit.name = "AbortError") =>
       /\ result = Failure(<<"Rector process timed out after ">>
                             \o ToDigits(rectorConfig.timeout) \o <<"ms">>)
       /\ timeoutId = "fired"
       /\ aborts = 1
  /\ (rpc = "done" /\ exit.name # "AbortError") =>
       /\ timeoutId # "armed"
       /\ aborts = 0

\* The timer fired on a process that had written a parsable payload.
TimedOutWithPayload ==
  /\ InvocationDone
  /\ exit.name = "AbortError"
  /\ exit.stdout = ChangedPayload
  /\ rectorConfig.timeout = ShortTimeout
  /\ result.error = <<"Rector process timed out after ", "1", "0", "0", "ms">>

\* The config path passed to the tool: the configured one after resolution,
\* else the one discovered from the first target, else none.
ExpectedConfig ==
  IF rectorConfig.configPath # <<>> THEN resolveSpecialPath(rectorConfig.configPath)
  ELSE IF request.paths # <<>> /\ findConfigFile(request.paths[1]) # Null
  THEN findConfigFile(request.paths[1])
  ELSE <<>>

ExpectedArgs ==
  << <<"process">> >>
    \o request.paths
    \o (IF request.dryRun THEN << <<"--dry-run">> >> ELSE <<>>)
    \o << <<"--output-format=json">> >>
    \o << <<"--no-progress-bar">> >>
    \o (IF rectorConfig.clearCache THEN << <<"--clear-cache">> >> ELSE <<>>)
    \o (IF ExpectedConfig # <<>> THEN << <<"--config=">> \o ExpectedConfig >> ELSE <<>>)

\* C19: the argument list of a processFile or processPaths invocation is
\* 'process', the targets in the given order, '--dry-run' iff preview,
\* '--output-format=json', '--no-progress-bar', '--clear-cache' iff
\* configured, '--config=<path>' iff a config path was configured or
\* discovered; it is a function of the inputs.
ArgsInOrder ==
  request.op \in {"processFile", "processPaths"} =>
    \A i \in 1..Len(spawned) : spawned[i].args = ExpectedArgs

\* A preview invocation with every optional argument.
FullArgsSpawned ==
  /\ request.op = "processFile"
  /\ Len(spawned) = 1
  /\ spawned[1].args =
       << <<"process">>, TargetFile, <<"--dry-run">>, <<"--output-format=json">>,
          <<"--no-progress-bar">>, <<"--clear-cache">>,
          <<"--config=", "/", "ws", "conf", "rector.php">> >>

\* C20: clearCache throws only when the executable is not found, with an
\* error naming the configured executable path; after any other failure it
\* completes normally.
ClearCacheSurfacesOnlyNotFound ==
  (rpc = "done" /\ request.op = "clearCache") =>
    /\ result.kind = "threw" <=> exit.code = "ENOENT"
    /\ result.kind = "threw" =>
         result.error = <<"Rector executable not found: ">> \o rectorConfig.executablePath
    /\ result.kind # "threw" => result = Completed

\* A failed cache-clear invocation was swallowed.
ClearCacheFailureSwallowed ==
  /\ rpc = "done"
  /\ request.op = "clearCache"
  /\ exit.name = "Error"
  /\ exit.code = "1"
  /\ result.kind = "completed"

\* The number of per-file records of the payload in the output, 0 without a
\* file_diffs member.
RecordsIn(stdout) ==
  LET members == {stdout[k] : k \in 1..Len(stdout)}
  IN  IF \E m \in members : m.t = "file_diffs"
      THEN (CHOOSE m \in members : m.t = "file_diffs").n
      ELSE 0

\* C21: a successful processFile surfaces the diff and the applied rules of
\* the first per-file record of the payload and of no other record, and none
\* when the payload has no record; a successful processPaths surfaces neither
\* a diff nor applied rules, only the changed-file count of the totals.
OnlyFirstRecordSurfaced ==
  (InvocationDone /\ result.kind = "returned" /\ result.success) =>
    /\ request.op = "processFile" =>
         /\ result.hasDiff <=> RecordsIn(exit.stdout) > 0
         /\ result.hasAppliedRectors <=> RecordsIn(exit.stdout) > 0
         /\ result.hasDiff => result.diff = 1
         /\ result.hasAppliedRectors => result.appliedRectors = 1
    /\ request.op = "processPaths" =>
         /\ ~result.hasDiff
         /\ ~result.hasAppliedRectors
         /\ result.changedFiles = ReportedChanged(exit.stdout)

\* A single-file call whose payload held two records surfaced the first.
SecondRecordDropped ==
  /\ InvocationDone
  /\ request.op = "processFile"
  /\ RecordsIn(exit.stdout) = 2
  /\ result.success
  /\ result.diff = 1

\* A multi-target call whose payload held records surfaced only the count.
PathsCountOnly ==
  /\ InvocationDone
  /\ request.op = "processPaths"
  /\ RecordsIn(exit.stdout) = 2
  /\ result.success
  /\ result.changedFiles = 2
  /\ ~result.hasDiff

\* ------------------------------------------------------------------------
\* DiffViewManager: cleanup, disposal and inferred discards
\* ------------------------------------------------------------------------

\* In this step call s comes out of `await this.cleanupDiffState()`, at the
\* start of showDiff (line 26) or in dispose (line 230).
CleanupCompletes(s) ==
  /\ sess[s].pc \in {"idle", "unlink"}
  /\ \/ sess'[s].kind = "showDiff" /\ sess'[s].pc = "readFile"
     \/ sess'[s].kind = "dispose" /\ sess'[s].pc = "readdir"

\* Nothing of a session is left: no armed timer, no apply callback, not
\* applying, no tracked path or documents, no status-bar item, no listener.
NothingLeft ==
  /\ timers = {}
  /\ items = {}
  /\ mgr = InitMgr

\* C22: when cleanupDiffState has run to its end, at the start of showDiff or
\* in dispose, no settle timer is armed, no apply callback is pending, the
\* applying flag is false, no scratch path and no document is tracked, no
\* status-bar item exists and no listener is registered.
CleanupLeavesNothing ==
  [][\A s \in Sessions : CleanupCompletes(s) => NothingLeft']_<<vars, dvars, rvars>>

\* In this step the dispose call s completes.
DisposeCompletes(s) ==
  sess[s].kind = "dispose" /\ sess[s].pc # "done" /\ sess'[s].pc = "done"

\* C23: when dispose completes the temp directory holds no scratch file,
\* whoever wrote it; a file that is not a scratch file is never removed.
DisposeSweepsScratchFiles ==
  [][/\ \A s \in Sessions :
          DisposeCompletes(s) => \A p \in TmpPaths : fs'[p] = NoSession
     /\ fs'[OtherFile] = fs[OtherFile]]_<<vars, dvars, rvars>>

\* ------------------------------------------------------------------------
\* RectorRunner: config discovery and path resolution
\* ------------------------------------------------------------------------

\* The directories from dir upward, the root last.
RECURSIVE Upward(_)
Upward(dir) ==
  IF dir = dirname(dir) THEN <<dir>> ELSE <<dir>> \o Upward(dirname(dir))

\* The candidate files in the order of the walk from the directory that
\* contains target: nearer directories first, rector.php before
\* rector.php.dist in each.
WalkOrder(target) ==
  LET dirs == Upward(dirname(target))
  IN [k \in 1..(2 * Len(dirs)) |->
        Append(dirs[(k + 1) \div 2], ConfigNames[2 - (k % 2)])]

\* The path of the --config= argument of an invocation, <<>> without one.
ConfigArg(args) ==
  LET at == {i \in 1..Len(args) : args[i] # <<>> /\ args[i][1] = "--config="}
  IN IF at = {} THEN <<>> ELSE Tail(args[CHOOSE i \in at : TRUE])

\* C24: with no config path configured, the config passed to the tool is the
\* first existing candidate of the walk upward from the directory of the
\* first target: a candidate in a nearer directory wins over one in a
\* farther ancestor, and rector.php over rector.php.dist in one directory;
\* without any candidate no config is passed.
FirstMatchWins ==
  (/\ request.op \in {"processFile", "processPaths"}
   /\ rectorConfig.configPath = <<>>
   /\ request.paths # <<>>
   /\ Len(spawned) = 1) =>
    LET order == WalkOrder(request.paths[1])
        existing == {k \in DOMAIN order : order[k] \in disk}
    IN IF existing = {} THEN ConfigArg(spawned[1].args) = <<>>
       ELSE ConfigArg(spawned[1].args) =
              order[CHOOSE k \in existing : \A j \in existing : k <= j]

\* The three steps on a non-empty path, in their order: a first segment "~"
\* becomes the home directory; a path that starts with "./" or "../" is
\* put under the first workspace folder when there is one; the result is
\* normalized.
HomeExpanded(p) == IF p[1] = "~" THEN HomeDir \o Tail(p) ELSE p

WorkspaceRooted(p) ==
  IF Len(p) > 1 /\ p[1] \in {".", ".."} /\ workspaceFolders # <<>>
  THEN workspaceFolders[1] \o p
  ELSE p

ResolvedInOrder(p) ==
  IF p = <<>> THEN <<>> ELSE normalize(WorkspaceRooted(HomeExpanded(p)))

\* C25: the executable that is started, the --config argument of a
\* configured config path and the path named by the config-not-found error
\* are the configured paths after: expansion of a leading "~" (and of no
\* other "~"), resolution of a leading "./" or "../" against the first
\* workspace folder if there is one, and normalization; an empty executable
\* path stays empty.
ResolutionInOrder ==
  /\ \A i \in 1..Len(spawned) :
       /\ spawned[i].file = ResolvedInOrder(rectorConfig.executablePath)
       /\ (rectorConfig.configPath # <<>> /\ request.op # "clearCache") =>
            ConfigArg(spawned[i].args) = ResolvedInOrder(rectorConfig.configPath)
  /\ (InvocationDone /\ spawned = <<>> /\ result.kind = "returned") =>
       result.error = <<"Config file not found: ">> \o ResolvedInOrder(rectorConfig.configPath)

\* A config path that starts with "~" and has "." and ".." segments was
\* passed to the tool as a path under the home directory.
MixedConfigPathResolved ==
  /\ rectorConfig.configPath = <<"~", ".", "conf", "..", "rector">>
  /\ Len(spawned) = 1
  /\ ConfigArg(spawned[1].args) = <<"/", "home", "rector">>

\* ------------------------------------------------------------------------
\* DiffViewManager: a session and the calls around it
\* ------------------------------------------------------------------------

\* Call b presents its diff and everything of the session is in place: the
\* pending decision, the scratch file, both status-bar items, the listeners.
Presenting(b) ==
  /\ sess[b].pc = "choice"
  /\ mgr.pendingChoice = b
  /\ fs[TmpFilePath(sess[b].originalUri)] = b
  /\ {<<"apply", b>>, <<"discard", b>>} \subseteq items
  /\ mgr.closeDocumentListener = b
  /\ mgr.changeActiveEditorListener = b

\* In this step the earlier showDiff call a, whose decision was taken, goes
\* on: its apply callback settles, or its cleanup or finally block resumes.
LateStep(a) ==
  /\ sess[a].kind = "showDiff"
  /\ sess[a].pc \in {"applying", "unlink"}
  /\ sess[a].choice # "none"
  /\ sess'[a] # sess[a]

\* C26: while a later call presents its diff, a step in which an earlier
\* call completes late (its apply callback finishes, its cleanup or finally
\* block resumes) leaves the later session's scratch file, status-bar
\* items, listeners and pending decision in place.
LateCompletionSparesSession ==
  [][\A a, b \in Sessions :
       (a < b /\ Presenting(b) /\ LateStep(a)) => Presenting(b)']_<<vars, dvars, rvars>>

\* In this step the decision of call s is taken by triggerDiscard.
InferredDiscard(s) ==
  sess[s].choice = "none" /\ sess'[s].claimedBy = "triggerDiscard"

\* C27: a settle timer discards only the session during which it was armed:
\* when an expiring timer discards a session, no timer armed during another
\* session was involved, however many timers the events of a session armed
\* before its cleanup.
TimerDiscardsOwnSession ==
  [][\A s \in Sessions :
       InferredDiscard(s) =>
         \A t \in timers : t \notin timers' => t.owner = s]_<<vars, dvars, rvars>>

\* The two documents of the comparison view of call s.
DocsOf(s) == {sess[s].originalUri, TmpFilePath(sess[s].originalUri)}

\* C28: a discard is inferred for a session only when none of its two
\* documents is shown by a visible editor (both were closed, or the view is
\* hidden); after the close of one of them, with the other still open and
\* visible, the session is not discarded.
DiscardInferredOnlyWhenGone ==
  [][\A s \in Sessions :
       InferredDiscard(s) => visibleDocs \cap DocsOf(s) = {}]_<<vars, dvars, rvars>>

\* C29: when a settle timer expires while the comparison view is visible
\* (again), both documents shown, the session is not discarded.
NoDiscardWhileVisible ==
  [][\A s \in Sessions :
       InferredDiscard(s) => ~(DocsOf(s) \subseteq visibleDocs)]_<<vars, dvars, rvars>>

\* ------------------------------------------------------------------------
\* applyDiff: the lines after the last hunk
\* ------------------------------------------------------------------------

\* The diff is one hunk that starts at line 1, its lines removed, added or
\* context lines, and the text ends with a newline: the last diff line is
\* empty.
NewlineEndedHunk(diff) ==
  LET lines == Split(diff)
  IN /\ Len(lines) >= 2
     /\ HunkMatches(lines[1])
     /\ OldStart(lines[1]) = 1
     /\ lines[Len(lines)] = <<>>
     /\ \A i \in 2..(Len(lines) - 1) :
          /\ ~IsFileHeader(lines[i])
          /\ \/ StartsWith(lines[i], <<"-">>)
             \/ StartsWith(lines[i], <<"+">>)
             \/ StartsWith(lines[i], <<" ">>)

\* The number of original lines such a hunk goes over.
HunkOldLines(diff) ==
  LET lines == Split(diff)
  IN Cardinality({i \in 2..(Len(lines) - 1) :
                    StartsWith(lines[i], <<"-">>) \/ StartsWith(lines[i], <<" ">>)})

\* C30: after a hunk that ends where the diff text ends with a newline, the
\* output ends with the original lines that follow the hunk, each as it is
\* in the original and in the original order, whitespace-only lines
\* included.
RemainingLinesVerbatim ==
  (dpc = "applied" /\ NewlineEndedHunk(dDiff)
     /\ HunkOldLines(dDiff) <= Len(Split(dOriginal))) =>
    LET originalLines == Split(dOriginal)
        out == Split(dOut)
        rest == Len(originalLines) - HunkOldLines(dDiff)
    IN /\ Len(out) >= rest
       /\ SubSeq(out, Len(out) - rest + 1, Len(out))
            = SubSeq(originalLines, HunkOldLines(dDiff) + 1, Len(originalLines))

\* ------------------------------------------------------------------------
\* applyDiff: removed and added lines, malformed hunks
\* ------------------------------------------------------------------------

\* The diff is a hunk header for line 1 followed by one line that starts
\* with '-' or with '+'.
SingleLineHunk(diff) ==
  LET lines == Split(diff)
  IN /\ Len(lines) = 2
     /\ HunkMatches(lines[1])
     /\ OldStart(lines[1]) = 1
     /\ StartsWith(lines[2], <<"-">>) \/ StartsWith(lines[2], <<"+">>)

\* C31: in a hunk a line that starts with '-' skips one original line and
\* emits nothing, and a line that starts with '+' emits the rest of the line
\* and skips nothing, whatever the rest of the line is ('--...' and '++...'
\* included): after one such line at line 1 the output is the original
\* without its first line, or the added text followed by the whole original.
HunkLineByFirstCharacter ==
  (dpc = "applied" /\ SingleLineHunk(dDiff)) =>
    LET line == Split(dDiff)[2]
        originalLines == Split(dOriginal)
    IN IF StartsWith(line, <<"-">>)
       THEN dOut = Join(Tail(originalLines))
       ELSE dOut = Join(<<Tail(line)>> \o originalLines)

\* The diff is one hunk of removed, added and context lines that goes beyond
\* the end of the original: its start, or the original lines it consumes.
OverrunsOriginal(original, diff) ==
  LET lines == Split(diff)
      body == 2..Len(lines)
  IN /\ HunkMatches(lines[1])
     /\ \A i \in body :
          /\ ~IsFileHeader(lines[i])
          /\ \/ StartsWith(lines[i], <<"-">>)
             \/ StartsWith(lines[i], <<"+">>)
             \/ StartsWith(lines[i], <<" ">>)
     /\ (OldStart(lines[1]) - 1)
          + Cardinality({i \in body : StartsWith(lines[i], <<"-">>)
                                        \/ StartsWith(lines[i], <<" ">>)})
          > Len(Split(original))

\* C32: for a hunk that starts beyond the end of the original, or whose
\* lines consume more original lines than there are, applyDiff returns null.
MalformedYieldsNull ==
  (dpc = "applied" /\ OverrunsOriginal(dOriginal, dDiff)) => dOut = Null

\* ------------------------------------------------------------------------
\* RectorRunner: the reach of config discovery, the parser, the waits
\* ------------------------------------------------------------------------

\* C33: with no config path configured, a config is passed to the tool
\* exactly when a rector.php or rector.php.dist exists in the directory of
\* the first target or in one of its ancestors, the root included.
DiscoveryReachesRoot ==
  (/\ request.op \in {"processFile", "processPaths"}
   /\ rectorConfig.configPath = <<>>
   /\ request.paths # <<>>
   /\ Len(spawned) = 1) =>
    LET order == WalkOrder(request.paths[1])
    IN ConfigArg(spawned[1].args) # <<>> <=> \E k \in DOMAIN order : order[k] \in disk

\* The value the two parse attempts give: the span from the first "{" to the
\* last "}" if it parses, else the whole output if it parses, else null.
SpanThenWhole(stdout) ==
  LET span == IF HasBraceSpan(stdout) THEN JSONparse(BraceSpan(stdout)) ELSE JsSyntaxError
      whole == JSONparse(stdout)
  IN IF span # JsSyntaxError THEN span
     ELSE IF whole # JsSyntaxError THEN whole
     ELSE JsNull

\* C34: after an exit with code 0 the call reports the parse failure when
\* neither the brace span nor the whole output parses (the parser returned
\* null), and does not report it when one of them parses to an object or
\* an array.
ParsesSpanThenWhole ==
  (InvocationDone /\ exit.name = "resolved") =>
    LET expected == SpanThenWhole(exit.stdout)
        parseFailure == result = Failure(<<"Failed to parse Rector output">>)
    IN /\ expected = JsNull => parseFailure
       /\ expected.type \in {"object", "array"} => ~parseFailure

\* The invocations under the event loop's scheduling: a timer armed by
\* setTimeout (line 490) fires when its delay has passed; nothing makes the
\* spawned process exit.
SpecRunnerFair ==
  /\ InitRunner
  /\ [][NextRunner]_<<vars, dvars, rvars>>
  /\ WF_<<vars, dvars, rvars>>(\E stdout \in Stdouts : TimeoutFires(stdout))

\* C35: every wait for the spawned process is bounded by the timeout:
\* an invocation of processFile, processPaths or clearCache that is waiting
\* for the process eventually completes, even if the process never exits.
EveryWaitBounded == (rpc = "running") ~> (rpc = "done")

\* The manager under the event loop's scheduling: a file operation, the
\* vscode.diff command and an apply callback that a call awaits complete or
\* fail, and a timer that is armed fires; the user's actions (a new
\* showDiff, dispose, the two commands, closing and switching editors) are
\* under no obligation.
SpecFair ==
  /\ Init
  /\ [][Next]_<<vars, dvars, rvars>>
  /\ WF_<<vars, dvars, rvars>>(
       \/ \E s \in Sessions :
            \/ ReaddirDone(s) \/ UnlinkDone(s)
            \/ ReadFileDone(s) \/ ReadFileFail(s)
            \/ WriteFileDone(s) \/ WriteFileFail(s)
            \/ DiffCmdDone(s) \/ DiffCmdFail(s)
            \/ ApplyCallbackDone(s) \/ ApplyCallbackFail(s)
       \/ \E t \in timers : TimerFires(t))

\* C36: a showDiff call that waits for the decision and whose session has
\* been ended by a newer showDiff or by dispose (the manager no longer holds
\* its resolver) eventually returns to its caller.
SupersededCallReturns ==
  \A s \in Sessions :
    (sess[s].pc = "choice" /\ mgr.pendingChoice # s) ~> (sess[s].pc = "done")

\* C37: at most one apply callback is executing on the manager at any time.
OneApplyAtATime ==
  Cardinality({s \in Sessions : sess[s].pc = "applying"}) <= 1

\* No call waits for a decision whose resolver the manager holds.
NoneAwaitsDecision ==
  \A s \in Sessions : ~(sess[s].pc = "choice" /\ mgr.pendingChoice = s)

\* C38: when no session is presented (none was started, or the decision has
\* been claimed), the Apply and the Discard command change no field of the
\* manager, start no callback, delete no file, show no notification and
\* arm no timer.
CommandsIdleWithoutSession ==
  [][(NoneAwaitsDecision /\ (HandleApplyChoice \/ HandleDiscardChoice)) =>
       UNCHANGED <<mgr, sess, fs, items, timers, timerSeq>>]_<<vars, dvars, rvars>>

\* A decision has been claimed and its apply callback runs: the state in
\* which a further Apply or Discard command finds nothing to resolve.
CommandAfterClaim ==
  /\ NoneAwaitsDecision
  /\ mgr.isApplying
  /\ \E s \in Sessions : sess[s].pc = "applying" /\ sess[s].choice = "Apply"

\* C39: after Apply the notification 'Rector changes applied' is shown for
\* a call only when the re-invocation without --dry-run returned
\* success = true.
AppliedOnlyOnSuccess ==
  \A s \in Sessions :
    "Rector changes applied" \in sess[s].notes => sess[s].reinvoked = "success"

\* C40: when the payload the tool printed reports totals.errors > 0, the
\* completed invocation is not a clean success: success is false or an
\* error message is present, whether the process exited with 0 or not.
ToolErrorsNotCleanSuccess ==
  InvocationDone =>
    LET output == parseJsonOutput(exit.stdout)
    IN (output.type = "object" /\ output.hasTotals /\ output.errors > 0) =>
         (~result.success \/ result.error # <<>>)

====
